---- MODULE Spec2Model ----
(***************************************************************************)
(* Process-flow tracker ("Fluxo de Processos"): the Dashboard's            *)
(* current-state resolver and aggregator (src/pages/Dashboard.tsx) and the *)
(* list view's query builder with the store query it feeds                 *)
(* (src/unnamed/part_000: DbService and ProcessManager).                   *)
(*                                                                         *)
(* Conventions of the model                                                *)
(*  - an instant is a number of hours since an epoch (UTC);                *)
(*  - a date string is a record [kind, t]: the kind is the textual form    *)
(*    the string has, t the day (or, for an ISO timestamp, the hour) it    *)
(*    names; parsing is done by GetTime and friends, as new Date() does;   *)
(*  - a number of hours that may be NaN is a record [nan, v];              *)
(*  - a text whose characters matter (process number, sector, interested)  *)
(*    is a sequence of one-character strings.                              *)
(***************************************************************************)
EXTENDS Integers, Sequences, FiniteSets, TLC

\* ------------------------------------------------------------------------
\* Bounds of the model
\* ------------------------------------------------------------------------

\* longest list of rows handed to the current-state resolver
MaxLen == 3

\* longest list of rows handed to the aggregator and to the list view
MaxRows == 2

\* ------------------------------------------------------------------------
\* Numbers as JavaScript has them: NaN and its comparisons
\* ------------------------------------------------------------------------

NaN == [nan |-> TRUE, v |-> 0]

Num(v) == [nan |-> FALSE, v |-> v]

\* a > b : false as soon as one side is NaN
Gt(a, b) == ~a.nan /\ ~b.nan /\ a.v > b.v

\* a < b
Lt(a, b) == ~a.nan /\ ~b.nan /\ a.v < b.v

\* a <= b
Le(a, b) == ~a.nan /\ ~b.nan /\ a.v <= b.v

\* a === b : NaN is not equal to itself
StrictEq(a, b) == ~a.nan /\ ~b.nan /\ a.v = b.v

\* ------------------------------------------------------------------------
\* Date strings
\* ------------------------------------------------------------------------

\* 1000 * 60 * 60 * 24 milliseconds, in hours
HoursPerDay == 24

\* the hour of the day in 'T12:00:00-03:00'
NoonHour == 12

\* the offset of 'T12:00:00-03:00', hours behind UTC
NoonOffset == 3

\* '' (also undefined: both are falsy and new Date() of both is invalid)
NoDate == [kind |-> "empty", t |-> 0]

\* null: falsy, and new Date(null) is the epoch
NullDate == [kind |-> "null", t |-> 0]

\* a non-empty text that is no date
Garbage == [kind |-> "text", t |-> 0]

\* 'YYYY-MM-DD' of day d
DateOnly(d) == [kind |-> "date", t |-> d]

\* 'YYYY-MM-DDT12:00:00-03:00' of day d, what toServerTimestampNoonLocal writes
NoonLocal(d) == [kind |-> "noon", t |-> d]

\* 'YYYY-MM-DDTHH:00:00.000Z', what Date.prototype.toISOString writes at hour h
Iso(h) == [kind |-> "iso", t |-> h]

toServerTimestampNoonLocal(d) == NoonLocal(d)

\* JavaScript truthiness of a date string
Truthy(s) == s.kind \notin {"empty", "null"}

\* a || b
OrElse(a, b) == IF Truthy(a) THEN a ELSE b

\* new Date(s).getTime()
GetTime(s) ==
  CASE s.kind = "date" -> Num(HoursPerDay * s.t)
    [] s.kind = "noon" -> Num(HoursPerDay * s.t + NoonHour + NoonOffset)
    [] s.kind = "iso"  -> Num(s.t)
    [] s.kind = "null" -> Num(0)
    [] OTHER           -> NaN

\* ------------------------------------------------------------------------
\* String.prototype.trim on a sequence of characters
\* ------------------------------------------------------------------------

WhiteSpace == {" ", "\t"}

RECURSIVE TrimStart(_)
TrimStart(s) ==
  IF s # <<>> /\ Head(s) \in WhiteSpace THEN TrimStart(Tail(s)) ELSE s

RECURSIVE TrimEnd(_)
TrimEnd(s) ==
  IF s # <<>> /\ s[Len(s)] \in WhiteSpace
  THEN TrimEnd(SubSeq(s, 1, Len(s) - 1))
  ELSE s

TrimLeadingOnly(s) == TrimStart(s)

Trim(s) == TrimEnd(TrimStart(s))

\* ------------------------------------------------------------------------
\* Rows of the processes table
\* ------------------------------------------------------------------------

Row(number, entryDate, updatedAt, createdAt) ==
  [ id         |-> 0,
    number     |-> number,
    entryDate  |-> entryDate,
    updatedAt  |-> updatedAt,
    createdAt  |-> createdAt,
    sector     |-> <<>>,
    CGOF       |-> "",
    interested |-> <<>>,
    deadline   |-> NoDate,
    urgent     |-> FALSE ]

\* the i-th row of a result carries the id i
WithIds(rows) == [i \in DOMAIN rows |-> [rows[i] EXCEPT !.id = i]]

Range(s) == {s[i] : i \in DOMAIN s}

SeqsUpTo(S, n) == UNION {[1..k -> S] : k \in 0..n}

\* ------------------------------------------------------------------------
\* Dashboard: the current-state resolver
\* ------------------------------------------------------------------------

\* A JavaScript Map is a sequence of [key, value] in insertion order.
MapHas(map, key) == \E i \in DOMAIN map : map[i].key = key

MapGet(map, key) == map[CHOOSE i \in DOMAIN map : map[i].key = key].value

\* Map.prototype.set: a new key goes last, a present key keeps its place
MapSet(map, key, value) ==
  IF MapHas(map, key)
  THEN [i \in DOMAIN map |->
          IF map[i].key = key THEN [key |-> key, value |-> value] ELSE map[i]]
  ELSE Append(map, [key |-> key, value |-> value])

MapValues(map) == [i \in DOMAIN map |-> map[i].value]

FallbackCreatedFirst(p) == OrElse(p.createdAt, OrElse(p.updatedAt, p.entryDate))

\* p.updatedAt || p.createdAt || p.entryDate
Fallback(p) == OrElse(p.updatedAt, OrElse(p.createdAt, p.entryDate))

\* the list view's rule: a later entryDate replaces, nothing else does
ResolveStepEntryDateOnly(map, p) ==
  LET key == Trim(p.number) IN
  IF ~MapHas(map, key) THEN MapSet(map, key, p)
  ELSE IF Gt(GetTime(p.entryDate), GetTime(MapGet(map, key).entryDate))
       THEN MapSet(map, key, p)
       ELSE map

\* the body of data.forEach
ResolveStep(map, p) ==
  LET key == Trim(p.number) IN
  IF ~MapHas(map, key) THEN MapSet(map, key, p)
  ELSE LET existing       == MapGet(map, key)
           newDate        == GetTime(p.entryDate)
           existingDate   == GetTime(existing.entryDate)
           newUpdate      == GetTime(Fallback(p))
           existingUpdate == GetTime(Fallback(existing))
       IN  IF Gt(newDate, existingDate) THEN MapSet(map, key, p)
           ELSE IF StrictEq(newDate, existingDate) /\ Gt(newUpdate, existingUpdate)
                THEN MapSet(map, key, p)
                ELSE map

RECURSIVE ResolveFrom(_, _, _)
ResolveFrom(list, i, map) ==
  IF i > Len(list) THEN map
  ELSE ResolveFrom(list, i + 1, ResolveStep(map, list[i]))

UniqueProcessesSkipLast(list) ==
  MapValues(ResolveFrom(SubSeq(list, 1, Len(list) - 1), 1, <<>>))

\* useMemo(() => ..., [data])
UniqueProcesses(list) == MapValues(ResolveFrom(list, 1, <<>>))

\* ------------------------------------------------------------------------
\* Local time.  tz is the offset of the browser's zone in hours: local time
\* is UTC + tz (America/Sao_Paulo is -3).  No zone here has daylight saving.
\* ------------------------------------------------------------------------

\* the local calendar day an instant t (a plain number of hours) falls on
LocalDay(t, tz) == (t + tz) \div HoursPerDay

\* the instant of 00:00 local time on a day
MidnightOf(day, tz) == HoursPerDay * day - tz

\* d.setHours(0, 0, 0, 0) on new Date(); d.getTime()
SetHoursZero(x, tz) ==
  IF x.nan THEN NaN ELSE Num(MidnightOf(LocalDay(x.v, tz), tz))

\* new Date(s + 'T00:00:00').getTime(): a date-only string with a time and no
\* offset is local time; any other string is no date once the suffix is there
GetTimeAtLocalMidnight(s, tz) ==
  IF s.kind = "date" THEN Num(MidnightOf(s.t, tz)) ELSE NaN

\* Math.ceil(a / b) for b > 0
CeilDiv(a, b) == -((-a) \div b)

\* ------------------------------------------------------------------------
\* Plain objects used as counters: Record<string, number>
\* ------------------------------------------------------------------------

Digits == <<"0", "1", "2", "3", "4", "5", "6", "7", "8", "9">>

IsDigit(c) == \E i \in DOMAIN Digits : Digits[i] = c

DigitValue(c) == (CHOOSE i \in DOMAIN Digits : Digits[i] = c) - 1

\* a canonical array index ("0", "7", "12", not "07"): such keys are
\* enumerated first, in ascending numeric order
IsArrayIndex(key) ==
  /\ key # <<>>
  /\ \A i \in DOMAIN key : IsDigit(key[i])
  /\ (Len(key) = 1 \/ key[1] # "0")

RECURSIVE IndexValue(_)
IndexValue(key) ==
  IF key = <<>> THEN 0
  ELSE 10 * IndexValue(SubSeq(key, 1, Len(key) - 1)) + DigitValue(key[Len(key)])

\* An object is the sequence of its [key, value] in Object.keys order.
ObjHas(obj, key) == \E i \in DOMAIN obj : obj[i].key = key

\* where a new key goes: an array index before the first entry that is no
\* array index or is a larger one; any other key last
InsertAt(obj, key) ==
  IF IsArrayIndex(key)
  THEN LET later == {i \in DOMAIN obj :
                       \/ ~IsArrayIndex(obj[i].key)
                       \/ IndexValue(obj[i].key) > IndexValue(key)}
       IN  IF later = {} THEN Len(obj) + 1
           ELSE CHOOSE i \in later : \A j \in later : i <= j
  ELSE Len(obj) + 1

\* obj[key] = (obj[key] || 0) + 1 for keys that are never array indices
\* ('Assessoria', '2024-06'): a new key goes last
CountUpPlainKey(obj, key) ==
  IF ObjHas(obj, key)
  THEN [i \in DOMAIN obj |->
          IF obj[i].key = key THEN [obj[i] EXCEPT !.value = @ + 1] ELSE obj[i]]
  ELSE Append(obj, [key |-> key, value |-> 1])

\* obj[key] = (obj[key] || 0) + 1, for a key that is no property name of
\* Object.prototype (the inputs of the model have none)
CountUp(obj, key) ==
  IF ObjHas(obj, key)
  THEN [i \in DOMAIN obj |->
          IF obj[i].key = key THEN [obj[i] EXCEPT !.value = @ + 1] ELSE obj[i]]
  ELSE LET at == InsertAt(obj, key)
       IN  SubSeq(obj, 1, at - 1) \o <<[key |-> key, value |-> 1]>>
             \o SubSeq(obj, at, Len(obj))

\* Object.keys(obj).map(key => ({ name: key, value: obj[key] }))
Entries(obj) == [i \in DOMAIN obj |-> [name |-> obj[i].key, value |-> obj[i].value]]

\* one step of a stable insertion: e goes after every entry that is not smaller
InsertByValueDesc(sorted, e) ==
  LET smaller == {i \in DOMAIN sorted : sorted[i].value < e.value}
      at == IF smaller = {} THEN Len(sorted) + 1
            ELSE CHOOSE i \in smaller : \A j \in smaller : i <= j
  IN  SubSeq(sorted, 1, at - 1) \o <<e>> \o SubSeq(sorted, at, Len(sorted))

RECURSIVE SortFrom(_, _, _)
SortFrom(list, i, sorted) ==
  IF i > Len(list) THEN sorted
  ELSE SortFrom(list, i + 1, InsertByValueDesc(sorted, list[i]))

\* .sort((a, b) => b.value - a.value): Array.prototype.sort is stable
SortByValueDesc(list) == SortFrom(list, 1, <<>>)

\* .slice(0, n)
Take(list, n) == SubSeq(list, 1, IF Len(list) < n THEN Len(list) ELSE n)

\* .slice(-n)
TakeLast(list, n) ==
  SubSeq(list, IF Len(list) < n THEN 1 ELSE Len(list) - n + 1, Len(list))

\* ------------------------------------------------------------------------
\* Dashboard: the aggregator
\* ------------------------------------------------------------------------

\* fiveDaysFromNow.setDate(today.getDate() + 5)
NearDays == 5

\* .slice(0, 8) of the sector table
TopSectors == 8

\* .slice(0, 5) of the interested-party table
TopInterested == 5

\* .slice(-12) of the month series
TrendMonths == 12

\* key.length > 20
LabelMax == 20

\* key.substring(0, 17)
LabelKeep == 17

NaoInformado == <<"N", "a", "o", " ", "I", "n", "f", "o", "r", "m", "a", "d", "o">>

\* today = new Date(); today.setHours(0, 0, 0, 0)
Today(clock, zone) == SetHoursZero(Num(clock), zone)

FiveDaysFromNow(today) == Num(today.v + NearDays * HoursPerDay)

\* the branch of lines 80-87 a record takes
DeadlineBucket(p, today, fiveDaysFromNow, zone) ==
  IF Truthy(p.deadline)
  THEN LET deadline == GetTimeAtLocalMidnight(p.deadline, zone)
       IN  IF Lt(deadline, today) THEN "overdue"
           ELSE IF Le(deadline, fiveDaysFromNow) THEN "nearDeadline"
           ELSE "onTime"
  ELSE "onTime"

\* p.sector?.trim() || 'Não Informado'
SectorKey(p) == IF Trim(p.sector) # <<>> THEN Trim(p.sector) ELSE NaoInformado

\* p.CGOF || 'Assessoria'
OriginKey(p) == IF p.CGOF # "" THEN p.CGOF ELSE "Assessoria"

\* p.interested?.trim() || 'Não Informado'
InterestedKey(p) ==
  IF Trim(p.interested) # <<>> THEN Trim(p.interested) ELSE NaoInformado

\* datePart.includes('-'): every date form has one, the other texts of the
\* model have none
HasDash(s) == s.kind \in {"date", "noon", "iso"}

\* the day that entryDate.toString().slice(0, 10) spells
DatePart(s) == IF s.kind = "iso" THEN s.t \div HoursPerDay ELSE s.t

\* `${y}-${m}` of a day, as the number of its month: the calendar of the
\* model has months of 30 days, and the order of the keys '2024-05' <
\* '2024-06' is the order of these numbers
MonthKey(day) == day \div 30

MonthCounted(p) == Truthy(p.entryDate) /\ HasDash(p.entryDate)

EmptyCounts ==
  [ urgent |-> 0, overdue |-> 0, nearDeadline |-> 0, onTime |-> 0,
    sectorCount |-> <<>>, originCount |-> <<>>,
    monthCount |-> <<>>, interestedCount |-> <<>> ]

\* the body of uniqueProcesses.forEach
CountStep(acc, p, today, fiveDaysFromNow, zone) ==
  LET bucket == DeadlineBucket(p, today, fiveDaysFromNow, zone) IN
  [ urgent          |-> IF p.urgent THEN acc.urgent + 1 ELSE acc.urgent,
    overdue         |-> IF bucket = "overdue" THEN acc.overdue + 1 ELSE acc.overdue,
    nearDeadline    |-> IF bucket = "nearDeadline" THEN acc.nearDeadline + 1
                        ELSE acc.nearDeadline,
    onTime          |-> IF bucket = "onTime" THEN acc.onTime + 1 ELSE acc.onTime,
    sectorCount     |-> CountUp(acc.sectorCount, SectorKey(p)),
    originCount     |-> CountUpPlainKey(acc.originCount, OriginKey(p)),
    interestedCount |-> CountUp(acc.interestedCount, InterestedKey(p)),
    monthCount      |-> IF MonthCounted(p)
                        THEN CountUpPlainKey(acc.monthCount,
                                             MonthKey(DatePart(p.entryDate)))
                        ELSE acc.monthCount ]

RECURSIVE CountFrom(_, _, _, _, _, _)
CountFrom(list, i, acc, today, fiveDaysFromNow, zone) ==
  IF i > Len(list) THEN acc
  ELSE CountFrom(list, i + 1,
                 CountStep(acc, list[i], today, fiveDaysFromNow, zone),
                 today, fiveDaysFromNow, zone)

\* the counters after the loop of lines 76-110
Counts(list, clock, zone) ==
  CountFrom(list, 1, EmptyCounts,
            Today(clock, zone), FiveDaysFromNow(Today(clock, zone)), zone)

\* key.length > 20 ? key.substring(0, 17) + '...' : key
InterestedLabel(key) ==
  IF Len(key) > LabelMax THEN SubSeq(key, 1, LabelKeep) \o <<".", ".", ".">>
  ELSE key

\* Object.keys(monthCount).sort(): one step of an insertion by ascending key
InsertByKeyAsc(sorted, e) ==
  LET larger == {i \in DOMAIN sorted : sorted[i].key > e.key}
      at == IF larger = {} THEN Len(sorted) + 1
            ELSE CHOOSE i \in larger : \A j \in larger : i <= j
  IN  SubSeq(sorted, 1, at - 1) \o <<e>> \o SubSeq(sorted, at, Len(sorted))

RECURSIVE SortKeysFrom(_, _, _)
SortKeysFrom(obj, i, sorted) ==
  IF i > Len(obj) THEN sorted
  ELSE SortKeysFrom(obj, i + 1, InsertByKeyAsc(sorted, obj[i]))

\* the value of useMemo(() => ..., [uniqueProcesses, realTotalMovements])
Stats(list, total, clock, zone) ==
  LET c == Counts(list, clock, zone) IN
  [ totalUnique    |-> Len(list),
    totalHistory   |-> total,
    urgent         |-> c.urgent,
    overdue        |-> c.overdue,
    nearDeadline   |-> c.nearDeadline,
    sectorData     |-> Take(SortByValueDesc(Entries(c.sectorCount)), TopSectors),
    originData     |-> SortByValueDesc(Entries(c.originCount)),
    interestedData |->
      Take(SortByValueDesc(
             [i \in DOMAIN c.interestedCount |->
                [name  |-> InterestedLabel(c.interestedCount[i].key),
                 value |-> c.interestedCount[i].value]]),
           TopInterested),
    trendData      |-> TakeLast(Entries(SortKeysFrom(c.monthCount, 1, <<>>)),
                                TrendMonths),
    deadlineData   |->
      SelectSeq(<< [name |-> "No Prazo", value |-> c.onTime],
                   [name |-> "Proximo",  value |-> c.nearDeadline],
                   [name |-> "Vencido",  value |-> c.overdue] >>,
                LAMBDA d : d.value > 0) ]

\* ------------------------------------------------------------------------
\* List view (ProcessManager): its resolver and the deadline label
\* ------------------------------------------------------------------------

\* diffDays <= 5
StatusNearDays == 5

\* a row as DbService.getProcesses hands it on: entryDate: p.entryDate || '',
\* deadline: p.deadline || null
ListRow(p) ==
  [p EXCEPT !.entryDate = OrElse(@, NoDate), !.deadline = OrElse(@, NullDate)]

\* the body of processes.forEach: the key is the number as it is
ListResolveStep(map, p) ==
  IF ~MapHas(map, p.number) THEN MapSet(map, p.number, p)
  ELSE IF Gt(GetTime(p.entryDate), GetTime(MapGet(map, p.number).entryDate))
       THEN MapSet(map, p.number, p)
       ELSE map

RECURSIVE ListResolveFrom(_, _, _)
ListResolveFrom(list, i, map) ==
  IF i > Len(list) THEN map
  ELSE ListResolveFrom(list, i + 1, ListResolveStep(map, list[i]))

\* useMemo(() => ..., [processes])
ListUniqueProcesses(list) == MapValues(ListResolveFrom(list, 1, <<>>))

\* the label of getDeadlineStatus(deadlineStr)
GetDeadlineStatus(deadlineStr, clock, zone) ==
  IF ~Truthy(deadlineStr) THEN "-"
  ELSE LET today    == SetHoursZero(Num(clock), zone)
           deadline == SetHoursZero(GetTime(deadlineStr), zone)
           diffDays == IF deadline.nan THEN NaN
                       ELSE Num(CeilDiv(deadline.v - today.v, HoursPerDay))
       IN  IF Lt(diffDays, Num(0)) THEN "Vencido"
           ELSE IF Le(diffDays, Num(StatusNearDays)) THEN "Proximo"
           ELSE "No Prazo"

\* ------------------------------------------------------------------------
\* List view: the query descriptor, and the query DbService.getProcesses
\* builds from a descriptor.  An optional value is <<>> (undefined) or <<v>>.
\* ------------------------------------------------------------------------

Undefined == <<>>

Some(v) == <<v>>

\* value || undefined, for a string
StrOrUndefined(str) == IF str # "" THEN Some(str) ELSE Undefined

FalseKept(flag) == Some(flag)

\* flag ? true : undefined
TrueOrUndefined(flag) == IF flag THEN Some(TRUE) ELSE Undefined

\* (sortBy === 'deadline' || sortBy === 'entryDate') ? 'desc' : 'asc'
SortOrder(field) ==
  IF field = "deadline" \/ field = "entryDate" THEN "desc" ELSE "asc"

\* getCurrentParams() for a UI state s
GetCurrentParams(s) ==
  [ page         |-> s.currentPage,
    itemsPerPage |-> s.itemsPerPage,
    searchTerm   |-> Some(s.debouncedSearchTerm),
    filters      |-> Some(
      [ CGOF           |-> StrOrUndefined(s.filterCgof),
        sector         |-> StrOrUndefined(s.filterSector),
        entryDateStart |-> StrOrUndefined(s.filterEntryDateStart),
        entryDateEnd   |-> StrOrUndefined(s.filterEntryDateEnd),
        urgent         |-> TrueOrUndefined(s.filterUrgent),
        overdue        |-> TrueOrUndefined(s.filterOverdue),
        emptySector    |-> TrueOrUndefined(s.filterEmptySector),
        emptyExitDate  |-> TrueOrUndefined(s.filterEmptyExitDate) ]),
    sortBy       |-> Some([field |-> s.sortBy, order |-> SortOrder(s.sortBy)]) ]

\* the rows a getProcesses() without a descriptor asks for: .limit(20)
DefaultLimit == 20

\* getProcesses(undefined)
NoParams == Undefined

\* a truthy optional string (if (params.filters?.sector))
Given(opt) == opt # Undefined /\ opt[1] # ""

\* a truthy optional flag (if (params.filters?.urgent))
Set(opt) == opt # Undefined /\ opt[1]

\* one constraint of the query, when its condition holds
When(cond, constraint) == IF cond THEN <<constraint>> ELSE <<>>

Filter(op, column, arg) == [op |-> op, column |-> column, arg |-> arg]

\* An object of optional fields is the function from its own keys to their
\* values: a key may be absent, or present with the value undefined.
NoFilters == [key \in {} |-> Undefined]

\* params.filters, {} standing for a missing one (the ?. of the reads)
FiltersOf(p) == IF p.filters = Undefined THEN NoFilters ELSE p.filters[1]

\* filters?.key: undefined for an absent key
Prop(filters, key) == IF key \in DOMAIN filters THEN filters[key] ELSE Undefined

QueryOrderAscending(p) ==
  IF p.sortBy # Undefined
  THEN [column |-> p.sortBy[1].field, ascending |-> p.sortBy[1].order = "asc"]
  ELSE [column |-> "entryDate", ascending |-> TRUE]

\* lines 252-256
QueryOrder(p) ==
  IF p.sortBy # Undefined
  THEN [column |-> p.sortBy[1].field, ascending |-> p.sortBy[1].order = "asc"]
  ELSE [column |-> "entryDate", ascending |-> FALSE]

\* lines 230-250, in the order the constraints are added
QueryFilters(p) ==
  LET f == FiltersOf(p) IN
       When(Given(p.searchTerm),
            Filter("or.ilike", "number,interested,subject", p.searchTerm[1]))
    \o When(Given(Prop(f, "CGOF")), Filter("eq", "CGOF", Prop(f, "CGOF")[1]))
    \o When(Given(Prop(f, "sector")), Filter("ilike", "sector", Prop(f, "sector")[1]))
    \o When(Given(Prop(f, "entryDateStart")),
            Filter("gte", "entryDate", Prop(f, "entryDateStart")[1]))
    \o When(Given(Prop(f, "entryDateEnd")),
            Filter("lte", "entryDate", Prop(f, "entryDateEnd")[1]))
    \o When(Set(Prop(f, "urgent")), Filter("eq", "urgent", "true"))
    \o When(Set(Prop(f, "overdue")), Filter("lt", "deadline", "today"))
    \o When(Set(Prop(f, "emptySector")), Filter("or", "sector", "is.null,eq.''"))
    \o When(Set(Prop(f, "emptyExitDate")), Filter("is", "processDate", "null"))

GetProcessesQueryFromPageTimesSize(params) ==
  IF params = NoParams
  THEN [ filters |-> <<>>,
         order   |-> [column |-> "entryDate", ascending |-> FALSE],
         from    |-> 0,
         to      |-> DefaultLimit - 1 ]
  ELSE LET p == params[1]
           from == p.page * p.itemsPerPage
       IN  [ filters |-> QueryFilters(p),
             order   |-> QueryOrder(p),
             from    |-> from,
             to      |-> from + p.itemsPerPage - 1 ]

\* the query getProcesses(params) sends to the store
GetProcessesQuery(params) ==
  IF params = NoParams
  THEN [ filters |-> <<>>,
         order   |-> [column |-> "entryDate", ascending |-> FALSE],
         from    |-> 0,
         to      |-> DefaultLimit - 1 ]
  ELSE LET p == params[1]
           from == (p.page - 1) * p.itemsPerPage
       IN  [ filters |-> QueryFilters(p),
             order   |-> QueryOrder(p),
             from    |-> from,
             to      |-> from + p.itemsPerPage - 1 ]

\* setTimeout(() => { setDebouncedSearchTerm(searchTerm); }, 500)
DebounceMs == 500

\* const maxPagesToShow = 5
MaxPagesToShow == 5

Max(a, b) == IF a > b THEN a ELSE b

Min(a, b) == IF a < b THEN a ELSE b

\* the page numbers getPageNumbers() returns, for a number of pages
GetPageNumbers(totalPages, page) ==
  IF totalPages <= MaxPagesToShow THEN 1 .. totalPages
  ELSE LET start == Max(1, page - 2)
           end0  == Min(totalPages, page + 2)
           end   == IF start = 1 THEN Min(totalPages, MaxPagesToShow) ELSE end0
           first == IF end = totalPages
                    THEN Max(1, totalPages - MaxPagesToShow + 1) ELSE start
       IN  first .. end

\* ------------------------------------------------------------------------
\* List view: the process form
\* ------------------------------------------------------------------------

\* a text of fewer than ten characters that is no date, '2024-6-1'
ShortText == [kind |-> "short", t |-> 0]

\* toServerTimestampNoonLocal of the text of a form field: null for a falsy
\* text and for one whose first ten characters are fewer than ten, else the
\* first ten characters followed by 'T12:00:00-03:00'
NoonLocalOfText(dateInput) ==
  IF ~Truthy(dateInput) THEN NullDate
  ELSE CASE dateInput.kind = "short" -> NullDate
         [] dateInput.kind = "date"  -> NoonLocal(dateInput.t)
         [] dateInput.kind = "noon"  -> NoonLocal(dateInput.t)
         [] dateInput.kind = "iso"   -> NoonLocal(dateInput.t \div HoursPerDay)
         [] OTHER                    -> Garbage

EntryDateNeverMissing(entryDate) == FALSE

\* !entryDate
EntryDateMissing(entryDate) == ~Truthy(entryDate)

\* getTodayLocalISO(): the day it is in America/Sao_Paulo
getTodayLocalISO(clock) == DateOnly((clock - NoonOffset) \div HoursPerDay)

\* ------------------------------------------------------------------------
\* DbService: the writers of the store
\* ------------------------------------------------------------------------

\* BATCH_SIZE of importProcesses
BATCH_SIZE == 100

\* String(value || '').toLowerCase().trim() of the texts the model uses
LowerTrim(value) ==
  CASE value = "Recebimento"             -> "recebimento"
    [] value = " RECEBIMENTO "           -> "recebimento"
    [] value = "Gabinete do Coordenador" -> "gabinete do coordenador"
    [] value = "GABINETE"                -> "gabinete"
    [] value = "Assessoria"              -> "assessoria"
    [] OTHER                             -> value

\* lower.includes(word), for the two words normalizeCGOF looks for
Includes(lower, word) ==
  \/ word = "recebimento" /\ lower = "recebimento"
  \/ word = "gabinete" /\ lower \in {"gabinete", "gabinete do coordenador"}

\* the values normalizeCGOF answers with
CgofNormalized == {"Recebimento", "Gabinete do Coordenador", "Assessoria"}

normalizeCGOF(value) ==
  LET lower == LowerTrim(value) IN
  IF Includes(lower, "recebimento") THEN "Recebimento"
  ELSE IF Includes(lower, "gabinete") THEN "Gabinete do Coordenador"
  ELSE "Assessoria"

\* DbService.logAction: the insert into 'logs'; its error is not looked at.
\* targetId is <<>> when the caller passes none, <<id>> otherwise
logAction(log, action, targetId, inserted) ==
  IF inserted THEN Append(log, [action |-> action, targetId |-> targetId])
  ELSE log

\* the rows of the table that have the id
WithId(table, id) == {i \in DOMAIN table : table[i].id = id}

NotAmong(table, ids) ==
  LET Kept(r) == r.id \notin ids IN SelectSeq(table, Kept)

\* the instant a timestamp column holds
StoreInstant(s) == GetTime(s).v

\* order('entryDate', desc) then order('createdAt', desc): p does not come
\* after q
ComesFirst(p, q) ==
  \/ StoreInstant(p.entryDate) > StoreInstant(q.entryDate)
  \/ /\ StoreInstant(p.entryDate) = StoreInstant(q.entryDate)
     /\ StoreInstant(p.createdAt) >= StoreInstant(q.createdAt)

getLastProcessByNumberAnyRow(table, number) ==
  {i \in DOMAIN table : table[i].number = number}

\* getLastProcessByNumber: the rows the query may answer with under
\* limit(1); none when it answers null
getLastProcessByNumber(table, number) ==
  {i \in DOMAIN table :
     /\ table[i].number = number
     /\ \A j \in DOMAIN table :
          table[j].number = number => ComesFirst(table[i], table[j])}

\* getProcessHistory: the rows that may stand last in the answer, which is
\* ordered by entryDate and then createdAt, both ascending; the history
\* view shows the last item as the current location
getProcessHistoryLast(table, number) ==
  {i \in DOMAIN table :
     /\ table[i].number = number
     /\ \A j \in DOMAIN table :
          table[j].number = number =>
            \/ StoreInstant(table[j].entryDate) < StoreInstant(table[i].entryDate)
            \/ /\ StoreInstant(table[j].entryDate) = StoreInstant(table[i].entryDate)
               /\ StoreInstant(table[j].createdAt) <= StoreInstant(table[i].createdAt)}

\* the columns getAllProcessesForDashboard selects: createdAt is not one
DashboardColumns(row) == [row EXCEPT !.createdAt = NoDate]

\* getAllProcessesForDashboard: the answers the query may give, the rows in
\* any order that has entryDate descending
getAllProcessesForDashboard(table) ==
  { [i \in DOMAIN table |-> DashboardColumns(table[f[i]])] :
      f \in { g \in [DOMAIN table -> DOMAIN table] :
                /\ \A i, j \in DOMAIN table : i # j => g[i] # g[j]
                /\ \A i, j \in DOMAIN table :
                     i < j => StoreInstant(table[g[i]].entryDate)
                                >= StoreInstant(table[g[j]].entryDate) } }

\* the payload of saveProcess at the instant 'at'
SavePayload(table, process, at) ==
  LET existing == WithId(table, process.id)
      isUpdate == existing # {}
  IN  [process EXCEPT
         !.CGOF = normalizeCGOF(@),
         !.updatedAt = Iso(at),
         !.createdAt = IF isUpdate
                       THEN table[CHOOSE i \in existing : TRUE].createdAt
                       ELSE OrElse(@, Iso(at)),
         !.deadline = IF @ = NoDate THEN NullDate ELSE @]

\* upsert(payload): the row with the id of the payload becomes the payload
Upsert(table, payload) ==
  IF WithId(table, payload.id) # {}
  THEN [i \in DOMAIN table |->
          IF table[i].id = payload.id THEN payload ELSE table[i]]
  ELSE Append(table, payload)

\* {...updates, updatedBy, updatedAt} written over a row
ApplyUpdates(row, updates, at) ==
  [[f \in DOMAIN row |-> IF f \in DOMAIN updates THEN updates[f] ELSE row[f]]
     EXCEPT !.updatedAt = Iso(at)]

\* update(...).in('id', ids)
UpdateRows(table, ids, updates, at) ==
  [i \in DOMAIN table |->
     IF table[i].id \in ids THEN ApplyUpdates(table[i], updates, at)
     ELSE table[i]]

\* saveUser: the row eq('email', user.email) finds belongs to another id
EmailTakenNever(table, user) == FALSE

EmailTaken(table, user) ==
  \E i \in DOMAIN table : table[i].email = user.email /\ table[i].id # user.id

\* user.password && user.password.trim().length > 0
HasPassword(user) == user.password \notin {"", " "}

\* the id the store gives a row inserted without one
GeneratedId(table) == 10 + Len(table)

\* the row saveUser inserts
NewUserRow(table, user) ==
  [ id       |-> IF user.id # 0 THEN user.id ELSE GeneratedId(table),
    email    |-> user.email,
    password |-> user.password,
    password_hash |-> "",
    role     |-> IF Len(table) = 0 THEN "ADMIN" ELSE user.role,
    active   |-> user.active ]

\* the row saveUser's update leaves
UpdatedUserRow(row, user) ==
  [ id       |-> row.id,
    email    |-> user.email,
    password |-> IF HasPassword(user) THEN user.password ELSE row.password,
    password_hash |-> row.password_hash,
    role     |-> user.role,
    active   |-> user.active ]

\* data.password || data.password_hash: <<the text>>, or <<>> when the row
\* has neither
StoredPassword(row) ==
  IF row.password # "" THEN <<row.password>>
  ELSE IF row.password_hash # "" THEN <<row.password_hash>>
  ELSE <<>>

verifyPasswordAnyUser(table, userId, password, error) ==
  \E i \in DOMAIN table : StoredPassword(table[i]) = <<password>>

\* DbService.verifyPassword; error: the store answered the query with one
verifyPassword(table, userId, password, error) ==
  LET data == WithId(table, userId) IN
  IF error \/ data = {} THEN FALSE
  ELSE LET row == table[CHOOSE i \in data : TRUE] IN
       IF ~row.active THEN FALSE
       ELSE StoredPassword(row) = <<password>>

\* the lower case of the emails the model uses
LowerEmail(text) ==
  CASE text = "ADMIN@sistema.com" -> "admin@sistema.com"
    [] text = "Ana@sistema.com"   -> "ana@sistema.com"
    [] OTHER                      -> text

\* ilike('email', pattern): the match ignores case, and '%' in the pattern
\* stands for any text
ILike(value, pattern) ==
  \/ pattern = "%"
  \/ LowerEmail(value) = LowerEmail(pattern)

\* the user login inserts when the table of users is empty
SeedAdmin(table) ==
  [ id |-> GeneratedId(table), email |-> "admin@sistema.com",
    password |-> "123456", password_hash |-> "", role |-> "ADMIN",
    active |-> TRUE ]

\* the processes checkAndSeedData inserts at the instant 'at'
SeedProcesses(at) ==
  << [Row(<<"C">>, NoonLocal(1), Iso(at), Iso(at))
        EXCEPT !.id = 4, !.CGOF = "Assessoria"] >>

\* cleanedProcesses.slice(i, i + BATCH_SIZE)
Chunk(rows, i) == SubSeq(rows, i + 1, Min(i + BATCH_SIZE, Len(rows)))

\* ------------------------------------------------------------------------
\* State
\* ------------------------------------------------------------------------

VARIABLES
  \* Dashboard
  dashResponse,        \* the answer of getAllProcessesForDashboard in flight
  data,                \* useState<Process[]>([])
  realTotalMovements,  \* useState(0)
  loading,             \* useState(true)
  uniqueProcesses,     \* the memo of lines 34-58
  stats,               \* the memo of lines 60-152
  \* list view
  listResponse,        \* the answer of getProcesses in flight
  processes,           \* useApp().processes
  totalProcessesCount, \* useApp().totalProcessesCount
  listRows,            \* the memo of lines 744-754
  rowStatus,           \* getDeadlineStatus(process.deadline).label of each row
  \* the browser's clock and zone
  now, tz,
  \* list view: filters, sort and page
  searchTerm, debouncedSearchTerm, filterCgof, filterSector,
  filterEntryDateStart, filterEntryDateEnd, filterUrgent, filterOverdue,
  filterEmptySector, filterEmptyExitDate, sortBy, itemsPerPage, currentPage,
  requestedParams,     \* the descriptor the list view last passed to fetchProcesses
  \* the last call of DbService.getProcesses
  queryParams,         \* its argument
  storeQuery,          \* <<the query it built>>; <<>> before the first call
  \* list view: the timer of the search box
  debounceTimer,       \* <<ms left>> of the pending setTimeout; <<>> when none
  \* Dashboard: what the store answers, and fetches that overlap
  storeAnswer,         \* the answer getAllProcessesForDashboard gives now
  dashEarlier,         \* an answer in flight issued before dashResponse
  dashIssued,          \* the answer to the fetch issued last
  \* the store
  processTable,        \* the rows of 'processes', in the order they were inserted
  usersTable,          \* the rows of 'users'
  logs,                \* the rows of 'logs'
  completedOps,        \* the calls of DbService writers that have returned
  thrown,              \* the error the last call threw; "" if it returned
  call,                \* the last call of a writer: its name and its arguments
  \* DbService.importProcesses in progress
  importRows,          \* cleanedProcesses
  importAt,            \* i of the for loop
  importStatus,        \* "idle", "running", "done", "failed"
  importWrites,        \* the insert requests sent
  \* list view: the process form
  isModalOpen, saving, \* useState(false), useState(false)
  formEntryDate,       \* the value of the input named entryDate
  pendingSave,         \* <<the process handed to saveProcess>> during the await
  alertText,           \* the text of the last alert()
  \* list view: the password confirmation of 'Excluir'
  currentUser,          \* useApp().currentUser: its id, 0 for null
  selectedProcessNumber,
  isPasswordModalOpen, confirmPassword, passwordError, isVerifyingPassword,
  confirmCall,          \* handleConfirmPasswordDelete in progress: its position
                        \* and the user id and password it read
  \* DbService.login and logout
  sessionId,            \* localStorage 'procontrol_session_id': <<>> or <<id>>
  loginCall,            \* DbService.login in progress: its position, the
                        \* email and pass of the running call and the
                        \* arguments the caller gave
  loginResult,          \* what the last login returned to its caller
  seedPending,          \* checkAndSeedData was called and has not run yet
  \* calls of DbService that overlap
  deleteCall,           \* deleteLastMovement between its read and its delete
  saveCall,             \* saveProcess between its read and its upsert
  userCalls             \* two callers of saveUser: the position of each and
                        \* what it has read

dashVars == <<dashResponse, data, realTotalMovements, loading, uniqueProcesses, stats>>

listVars == <<listResponse, processes, totalProcessesCount, listRows, rowStatus>>

clockVars == <<now, tz>>

uiVars ==
  <<searchTerm, debouncedSearchTerm, filterCgof, filterSector,
    filterEntryDateStart, filterEntryDateEnd, filterUrgent, filterOverdue,
    filterEmptySector, filterEmptyExitDate, sortBy, itemsPerPage, currentPage>>

queryVars == <<requestedParams, queryParams, storeQuery>>

overlapVars == <<storeAnswer, dashEarlier, dashIssued>>

storeVars == <<processTable, usersTable, logs, completedOps, thrown, call>>

importVars == <<importRows, importAt, importStatus, importWrites>>

formVars == <<isModalOpen, saving, formEntryDate, pendingSave, alertText>>

confirmVars ==
  <<currentUser, selectedProcessNumber, isPasswordModalOpen, confirmPassword,
    passwordError, isVerifyingPassword, confirmCall>>

sessionVars == <<sessionId, loginCall, loginResult, seedPending>>

raceVars == <<deleteCall, saveCall, userCalls>>

vars ==
  <<dashVars, listVars, clockVars, uiVars, queryVars, debounceTimer,
    overlapVars, storeVars, importVars, formVars, confirmVars, sessionVars,
    raceVars>>

NoResponse == [pending |-> FALSE, rows |-> <<>>, count |-> 0]

Response(rows) == [pending |-> TRUE, rows |-> rows, count |-> Len(rows)]

NoQuery == <<>>

NoCall == [op |-> "", args |-> <<>>]

NoConfirmCall == [at |-> "idle", userId |-> 0, password |-> ""]

\* the list view's state as getCurrentParams reads it
UiState ==
  [ searchTerm |-> searchTerm, debouncedSearchTerm |-> debouncedSearchTerm,
    filterCgof |-> filterCgof, filterSector |-> filterSector,
    filterEntryDateStart |-> filterEntryDateStart,
    filterEntryDateEnd |-> filterEntryDateEnd,
    filterUrgent |-> filterUrgent, filterOverdue |-> filterOverdue,
    filterEmptySector |-> filterEmptySector,
    filterEmptyExitDate |-> filterEmptyExitDate,
    sortBy |-> sortBy, itemsPerPage |-> itemsPerPage, currentPage |-> currentPage ]

\* ------------------------------------------------------------------------
\* Inputs
\* ------------------------------------------------------------------------

\* 'A', ' A' followed by a tab, 'a'
Numbers == {<<"A">>, <<" ", "A", "\t">>, <<"a">>}

\* [entryDate, updatedAt, createdAt] of the rows given to the resolver
Stamps ==
  { <<NoDate,       NoDate,  NoDate>>,
    <<NoonLocal(1), NoDate,  NoDate>>,
    <<NoonLocal(1), Iso(50), Iso(60)>>,
    <<NoonLocal(1), NoDate,  Iso(55)>>,
    <<NoonLocal(2), NoDate,  NoDate>> }

ResolverRows == {Row(n, st[1], st[2], st[3]) : n \in Numbers, st \in Stamps}

ResolverInputs == {WithIds(rows) : rows \in SeqsUpTo(ResolverRows, MaxLen)}

\* the day the clocks of the model are on
RefDay == 10

Clocks == {HoursPerDay * RefDay + 1, HoursPerDay * RefDay + 13}

\* America/Sao_Paulo, UTC, Europe/Helsinki in winter
TimeZones == {-3, 0, 2}

BaseRow == Row(<<"P">>, NoonLocal(31), NoDate, NoDate)

AggregatorRows ==
  {BaseRow}
    \cup {[BaseRow EXCEPT !.deadline = d] :
            d \in {DateOnly(RefDay - 1), DateOnly(RefDay), DateOnly(RefDay + NearDays),
                   DateOnly(RefDay + NearDays + 1), NoonLocal(RefDay)}}
    \cup {[BaseRow EXCEPT !.sector = x] : x \in {<<"D">>, <<" ", "D">>, <<"7">>}}
    \cup {[BaseRow EXCEPT !.CGOF = "Recebimento"]}
    \cup {[BaseRow EXCEPT !.interested = <<"X">>]}
    \cup {[BaseRow EXCEPT !.entryDate = e] :
            e \in {NoDate, NullDate, DateOnly(61), Garbage}}
    \cup {[BaseRow EXCEPT !.urgent = TRUE]}

\* the i-th row has the id i and the number 'P' followed by the digit i
Numbered(rows) ==
  [i \in DOMAIN rows |->
     [rows[i] EXCEPT !.id = i, !.number = <<"P", Digits[i + 1]>>]]

AggregatorInputs == {Numbered(rows) : rows \in SeqsUpTo(AggregatorRows, MaxRows)}

SearchTerms == {"", "x"}

CgofValues == {"", "Recebimento"}

SectorValues == {"", "DEP"}

DateValues == {"", "2024-06-01"}

\* the type of sortBy
SortFields == {"deadline", "updatedAt", "number", "entryDate"}

\* two of the page sizes of the select, [10, 20, 50, 100, 500]
PageSizes == {10, 20}

Pages == {1, 2}

\* the texts typed into the search box
SearchTexts == SearchTerms \cup {"xy"}

\* the rows the store counted at the last fetch of the list
ListCount == 15

\* the step of the clock of the model, in ms
TickMs == 250

\* the calls of writers that return in one behaviour
MaxOps == 2

StoreIds == {1, 2, 3}

\* the processes handed to saveProcess: two movements of 'A', one of 'B';
\* the caller gives the first a createdAt or none
SaveInputs ==
  { [Row(<<"A">>, NoonLocal(1), NoDate, c) EXCEPT !.id = 1] : c \in {NoDate, Iso(0)} }
    \cup { [Row(<<"A">>, NoonLocal(d), NoDate, NoDate) EXCEPT !.id = 2] : d \in {1, 2} }
    \cup { [Row(<<"B">>, NoonLocal(2), NoDate, NoDate)
               EXCEPT !.id = 3, !.CGOF = "GABINETE"] }

\* the updates handed to updateProcesses
UpdateInputs ==
  { [sector |-> <<"D">>], [createdAt |-> Iso(0)], [CGOF |-> "GABINETE"] }

IdSets == { {1}, {2, 3} }

\* the numbers handed to deleteLastMovement
MovementNumbers == { <<"A">>, <<"B">>, <<"C">> }

\* the tables the writers start from
StoreTables ==
  { <<>>,
    << [Row(<<"A">>, NoonLocal(1), Iso(5), Iso(5))
          EXCEPT !.id = 1, !.CGOF = "Assessoria"],
       [Row(<<"A">>, NoonLocal(1), Iso(6), Iso(6))
          EXCEPT !.id = 2, !.CGOF = "Assessoria"],
       [Row(<<"B">>, NoonLocal(2), Iso(5), Iso(5))
          EXCEPT !.id = 3, !.CGOF = "Recebimento"] >> }

\* the texts the field entryDate of the form can hold
FormDates == {NoDate, DateOnly(RefDay), ShortText, Garbage}

\* the ids of the processes the form saves
FormIds == {1, 2}

\* the users handed to saveUser; the id 0 stands for no id, ' ' for a
\* password of blanks
UserInputs ==
  [ id : {0, 1, 2}, email : {"ana@sistema.com", "Ana@sistema.com", "bob@sistema.com"},
    password : {"", " ", "123456"}, role : {"USER"}, active : {TRUE} ]

\* the users of the password confirmation: an administrator, a user who was
\* deactivated, a user whose row has a password_hash only; the user 4 has
\* no row
ConfirmUsers ==
  << [id |-> 1, email |-> "admin@sistema.com", password |-> "123456",
      password_hash |-> "", role |-> "ADMIN", active |-> TRUE],
     [id |-> 2, email |-> "ana@sistema.com", password |-> "123456",
      password_hash |-> "", role |-> "USER", active |-> FALSE],
     [id |-> 3, email |-> "bob@sistema.com", password |-> "",
      password_hash |-> "123456", role |-> "USER", active |-> TRUE] >>

\* the processes handed to the saveProcess that overlaps a deletion: a new
\* movement of 'A' later than every stored one, and two stored movements
RaceSaveInputs ==
  { [Row(<<"A">>, NoonLocal(3), NoDate, NoDate) EXCEPT !.id = 4],
    [Row(<<"A">>, NoonLocal(2), NoDate, NoDate) EXCEPT !.id = 2],
    [Row(<<"B">>, NoonLocal(2), NoDate, NoDate) EXCEPT !.id = 3] }

\* the users handed to the two callers of saveUser
RaceUserInputs == {u \in UserInputs : u.password = "123456" /\ u.id \in {0, 1}}

\* the emails and passwords handed to login
LoginEmails ==
  {"admin@sistema.com", "ADMIN@sistema.com", "bob@sistema.com",
   "zeca@sistema.com", "%"}

LoginPasswords == {"123456", "errada"}

\* the texts typed as a password
PasswordTexts == {"", "123456", "errada"}

\* the longest file imported
MaxImport == 201

\* the i-th row of an imported file
ImportRow(i) ==
  [Row(<<"P">>, NoonLocal(1), NoDate, NoDate)
     EXCEPT !.id = i, !.CGOF = IF i % 2 = 0 THEN " RECEBIMENTO " ELSE ""]

\* a row the table holds before the import
OldRow == [Row(<<"A">>, NoonLocal(1), Iso(1), Iso(1)) EXCEPT !.CGOF = "Assessoria"]

\* the tables the store holds while fetches of the Dashboard overlap
OverlapInputs ==
  {WithIds(rows) :
     rows \in SeqsUpTo({Row(<<"A">>, NoonLocal(1), NoDate, NoDate),
                        Row(<<"A">>, NoonLocal(2), NoDate, NoDate)}, MaxRows)}

\* descriptors of callers other than the list view: no sortBy
OtherParams ==
  { NoParams,
    Some([ page |-> 1, itemsPerPage |-> 20, searchTerm |-> Undefined,
           filters |-> Undefined, sortBy |-> Undefined ]),
    Some([ page |-> 2, itemsPerPage |-> 10, searchTerm |-> Some("x"),
           filters |-> Some([urgent |-> Some(TRUE), sector |-> Some("")]),
           sortBy |-> Undefined ]) }

\* ------------------------------------------------------------------------
\* Initial states
\* ------------------------------------------------------------------------

DashboardMounted ==
  /\ data = <<>>
  /\ realTotalMovements = 0
  /\ loading = TRUE
  /\ uniqueProcesses = UniqueProcesses(<<>>)
  /\ stats = Stats(<<>>, 0, now, tz)

ListMounted ==
  /\ processes = <<>>
  /\ totalProcessesCount = 0
  /\ listRows = <<>>
  /\ rowStatus = <<>>

\* lines 682-695 with nothing saved in localStorage
UiDefaults ==
  /\ searchTerm = ""
  /\ debouncedSearchTerm = ""
  /\ filterCgof = ""
  /\ filterSector = ""
  /\ filterEntryDateStart = ""
  /\ filterEntryDateEnd = ""
  /\ filterUrgent = FALSE
  /\ filterOverdue = FALSE
  /\ filterEmptySector = FALSE
  /\ filterEmptyExitDate = FALSE
  /\ sortBy = "entryDate"
  /\ itemsPerPage = 20
  /\ currentPage = 1

NoCallYet ==
  /\ requestedParams = Undefined
  /\ queryParams = NoParams
  /\ storeQuery = NoQuery

NoTimer == debounceTimer = <<>>

\* the store answers the Dashboard with the rows of the fetch on its way
OneFetch ==
  /\ storeAnswer = [rows |-> dashResponse.rows, count |-> dashResponse.count]
  /\ dashEarlier = NoResponse
  /\ dashIssued = storeAnswer

EmptyStore ==
  /\ processTable = <<>>
  /\ usersTable = <<>>
  /\ logs = <<>>
  /\ completedOps = 0
  /\ thrown = ""
  /\ call = NoCall

NoImport ==
  /\ importRows = <<>>
  /\ importAt = 0
  /\ importStatus = "idle"
  /\ importWrites = 0

\* lines 660-663: the modal is closed, nothing is being saved
FormClosed ==
  /\ isModalOpen = FALSE
  /\ saving = FALSE
  /\ formEntryDate = NoDate
  /\ pendingSave = <<>>
  /\ alertText = ""

\* lines 667-680: nobody is logged in, no deletion is being confirmed
NoConfirm ==
  /\ currentUser = 0
  /\ selectedProcessNumber = <<>>
  /\ isPasswordModalOpen = FALSE
  /\ confirmPassword = ""
  /\ passwordError = ""
  /\ isVerifyingPassword = FALSE
  /\ confirmCall = NoConfirmCall

NoLoginCall == [at |-> "idle", email |-> "", pass |-> "", args |-> <<>>]

NoLoginResult == [returned |-> FALSE, user |-> <<>>]

\* no session is stored, no login is running
NoSession ==
  /\ sessionId = <<>>
  /\ loginCall = NoLoginCall
  /\ loginResult = NoLoginResult
  /\ seedPending = FALSE

NoDeleteCall == [at |-> "idle", number |-> <<>>, last |-> <<>>]

NoSaveCall == [at |-> "idle", process |-> <<>>, existing |-> <<>>]

NoUserCall ==
  [at |-> "idle", user |-> <<>>, isNewUser |-> FALSE, first |-> FALSE]

\* no call is between two of its requests
NoRace ==
  /\ deleteCall = NoDeleteCall
  /\ saveCall = NoSaveCall
  /\ userCalls = [caller \in {1, 2} |-> NoUserCall]

\* the Dashboard has mounted and the answer to its first fetch is on its way
InitResolver ==
  /\ now = HoursPerDay * RefDay + 13
  /\ tz = -3
  /\ dashResponse \in {Response(rows) : rows \in ResolverInputs}
  /\ DashboardMounted
  /\ listResponse = NoResponse
  /\ ListMounted
  /\ UiDefaults
  /\ NoCallYet
  /\ NoTimer /\ OneFetch /\ EmptyStore /\ NoImport /\ FormClosed /\ NoConfirm
  /\ NoSession /\ NoRace

\* Dashboard and list view have mounted over the same table
InitAggregator ==
  /\ now \in Clocks
  /\ tz \in TimeZones
  /\ dashResponse \in {Response(rows) : rows \in AggregatorInputs}
  /\ listResponse = Response([i \in DOMAIN dashResponse.rows |->
                                ListRow(dashResponse.rows[i])])
  /\ DashboardMounted
  /\ ListMounted
  /\ UiDefaults
  /\ NoCallYet
  /\ NoTimer /\ OneFetch /\ EmptyStore /\ NoImport /\ FormClosed /\ NoConfirm
  /\ NoSession /\ NoRace

\* the list view in any state of its filters (lines 682-695 with a state
\* saved in localStorage), before it calls the store
InitQuery ==
  /\ now = HoursPerDay * RefDay + 13
  /\ tz = -3
  /\ dashResponse = NoResponse
  /\ DashboardMounted
  /\ listResponse = NoResponse
  /\ ListMounted
  /\ searchTerm \in SearchTerms
  /\ debouncedSearchTerm = searchTerm
  /\ filterCgof \in CgofValues
  /\ filterSector \in SectorValues
  /\ filterEntryDateStart \in DateValues
  /\ filterEntryDateEnd \in DateValues
  /\ filterUrgent \in BOOLEAN
  /\ filterOverdue \in BOOLEAN
  /\ filterEmptySector \in BOOLEAN
  /\ filterEmptyExitDate \in BOOLEAN
  /\ sortBy \in SortFields
  /\ itemsPerPage \in PageSizes
  /\ currentPage \in Pages
  /\ NoCallYet
  /\ NoTimer /\ OneFetch /\ EmptyStore /\ NoImport /\ FormClosed /\ NoConfirm
  /\ NoSession /\ NoRace

\* the list view has mounted with the defaults of its filters, and a sort
\* field, a page size and a page that may come from localStorage; its
\* effects have run: the list is asked for and the timer of the search box
\* is set
InitFilters ==
  /\ now = HoursPerDay * RefDay + 13
  /\ tz = -3
  /\ dashResponse = NoResponse
  /\ DashboardMounted
  /\ listResponse = NoResponse
  /\ processes = <<>>
  /\ totalProcessesCount = ListCount
  /\ listRows = <<>>
  /\ rowStatus = <<>>
  /\ searchTerm = ""
  /\ debouncedSearchTerm = ""
  /\ filterCgof = ""
  /\ filterSector = ""
  /\ filterEntryDateStart = ""
  /\ filterEntryDateEnd = ""
  /\ filterUrgent = FALSE
  /\ filterOverdue = FALSE
  /\ filterEmptySector = FALSE
  /\ filterEmptyExitDate = FALSE
  /\ sortBy \in {"entryDate", "number"}
  /\ itemsPerPage \in PageSizes
  /\ currentPage \in Pages
  /\ requestedParams = Some(GetCurrentParams(UiState))
  /\ queryParams = requestedParams
  /\ storeQuery = Some(GetProcessesQuery(queryParams))
  /\ debounceTimer = <<DebounceMs>>
  /\ OneFetch /\ EmptyStore /\ NoImport /\ FormClosed /\ NoConfirm
  /\ NoSession /\ NoRace

\* the Dashboard has mounted; the answer to its first fetch is on its way
InitOverlap ==
  /\ now = HoursPerDay * RefDay + 13
  /\ tz = -3
  /\ dashResponse \in {Response(rows) : rows \in OverlapInputs}
  /\ DashboardMounted
  /\ listResponse = NoResponse
  /\ ListMounted
  /\ UiDefaults
  /\ NoCallYet
  /\ NoTimer /\ OneFetch /\ EmptyStore /\ NoImport /\ FormClosed /\ NoConfirm
  /\ NoSession /\ NoRace

\* nothing is mounted; the table is empty or holds one row
InitImport ==
  /\ now = HoursPerDay * RefDay + 13
  /\ tz = -3
  /\ dashResponse = NoResponse
  /\ DashboardMounted
  /\ listResponse = NoResponse
  /\ ListMounted
  /\ UiDefaults
  /\ NoCallYet
  /\ NoTimer /\ OneFetch /\ NoImport /\ FormClosed /\ NoConfirm
  /\ NoSession /\ NoRace
  /\ processTable \in {<<>>, <<OldRow>>}
  /\ usersTable = <<>>
  /\ logs = <<>>
  /\ completedOps = 0
  /\ thrown = ""
  /\ call = NoCall

\* nothing is mounted; the writers of DbService are about to be called
InitStore ==
  /\ now = HoursPerDay * RefDay + 13
  /\ tz = -3
  /\ dashResponse = NoResponse
  /\ DashboardMounted
  /\ listResponse = NoResponse
  /\ ListMounted
  /\ UiDefaults
  /\ NoCallYet
  /\ NoTimer /\ OneFetch /\ NoImport /\ FormClosed /\ NoConfirm
  /\ NoSession /\ NoRace
  /\ processTable \in StoreTables
  /\ usersTable = <<>>
  /\ logs = <<>>
  /\ completedOps = 0
  /\ thrown = ""
  /\ call = NoCall

\* the list view has mounted over an empty table; its form is closed
InitForm == InitStore /\ processTable = <<>>

\* the list view has mounted over a table of three movements; someone, or
\* nobody, is logged in
InitConfirm ==
  /\ now = HoursPerDay * RefDay + 13
  /\ tz = -3
  /\ dashResponse = NoResponse
  /\ DashboardMounted
  /\ listResponse = NoResponse
  /\ ListMounted
  /\ UiDefaults
  /\ NoCallYet
  /\ NoTimer /\ OneFetch /\ NoImport /\ FormClosed
  /\ processTable \in StoreTables \ {<<>>}
  /\ usersTable = ConfirmUsers
  /\ logs = <<>>
  /\ completedOps = 0
  /\ thrown = ""
  /\ call = NoCall
  /\ currentUser \in 0..4
  /\ selectedProcessNumber = <<>>
  /\ isPasswordModalOpen = FALSE
  /\ confirmPassword = ""
  /\ passwordError = ""
  /\ isVerifyingPassword = FALSE
  /\ confirmCall = NoConfirmCall
  /\ NoSession /\ NoRace

\* the login page: nobody is logged in; the table of users is empty, as on
\* the first run, or holds three users
InitLogin ==
  /\ InitStore
  /\ processTable \in StoreTables
  /\ usersTable \in {<<>>, ConfirmUsers}

\* no user yet
InitUsers == InitStore /\ processTable = <<>> /\ usersTable = <<>>

Init ==
  \/ InitStore
  \/ InitConfirm
  \/ InitLogin
  \/ InitResolver
  \/ InitAggregator
  \/ InitQuery
  \/ InitFilters
  \/ InitOverlap
  \/ InitImport

\* ------------------------------------------------------------------------
\* Actions
\* ------------------------------------------------------------------------

\* the Refresh button with no fetch in flight: fetchDashboardData up to its
\* await; the answer on its way is the one the store gives now
fetchDashboardData ==
  /\ ~dashResponse.pending
  /\ loading' = TRUE
  /\ dashResponse' = [pending |-> TRUE, rows |-> storeAnswer.rows,
                      count |-> storeAnswer.count]
  /\ dashIssued' = storeAnswer
  /\ UNCHANGED <<data, realTotalMovements, uniqueProcesses, stats>>
  /\ UNCHANGED <<listVars, clockVars, uiVars, queryVars, debounceTimer>>
  /\ UNCHANGED <<storeAnswer, dashEarlier, storeVars, importVars, formVars, confirmVars,
                 sessionVars, raceVars>>

\* fetchDashboardData from its await on, and the render that follows
fetchDashboardDataDone ==
  /\ dashResponse.pending
  /\ data' = dashResponse.rows
  /\ realTotalMovements' = dashResponse.count
  /\ loading' = FALSE
  /\ dashResponse' = NoResponse
  /\ uniqueProcesses' = UniqueProcesses(data')
  /\ stats' = Stats(uniqueProcesses', realTotalMovements', now, tz)
  /\ UNCHANGED <<listVars, clockVars, uiVars, queryVars, debounceTimer>>
  /\ UNCHANGED <<overlapVars, storeVars, importVars, formVars, confirmVars,
                 sessionVars, raceVars>>

\* the Refresh button while a fetch is in flight: the button is never
\* disabled, and fetchDashboardData starts a second request
fetchDashboardDataAgain ==
  /\ dashResponse.pending
  /\ ~dashEarlier.pending
  /\ loading' = TRUE
  /\ dashEarlier' = dashResponse
  /\ dashResponse' = [pending |-> TRUE, rows |-> storeAnswer.rows,
                      count |-> storeAnswer.count]
  /\ dashIssued' = storeAnswer
  /\ UNCHANGED <<data, realTotalMovements, uniqueProcesses, stats>>
  /\ UNCHANGED <<listVars, clockVars, uiVars, queryVars, debounceTimer>>
  /\ UNCHANGED <<storeAnswer, storeVars, importVars, formVars, confirmVars,
                 sessionVars, raceVars>>

\* the request issued first settles: fetchDashboardData from its await on
fetchDashboardDataDoneEarlier ==
  /\ dashEarlier.pending
  /\ data' = dashEarlier.rows
  /\ realTotalMovements' = dashEarlier.count
  /\ loading' = FALSE
  /\ dashEarlier' = NoResponse
  /\ uniqueProcesses' = UniqueProcesses(data')
  /\ stats' = Stats(uniqueProcesses', realTotalMovements', now, tz)
  /\ UNCHANGED <<dashResponse, storeAnswer, dashIssued>>
  /\ UNCHANGED <<listVars, clockVars, uiVars, queryVars, debounceTimer>>
  /\ UNCHANGED <<storeVars, importVars, formVars, confirmVars,
                 sessionVars, raceVars>>

\* a writer changes the table between two fetches of the Dashboard
tableChanges ==
  /\ \E rows \in OverlapInputs \ {storeAnswer.rows} :
       storeAnswer' = [rows |-> rows, count |-> Len(rows)]
  /\ UNCHANGED <<dashVars, listVars, clockVars, uiVars, queryVars, debounceTimer>>
  /\ UNCHANGED <<dashEarlier, dashIssued, storeVars, importVars, formVars, confirmVars,
                 sessionVars, raceVars>>

\* the answer of getProcesses reaches the list view, which renders its rows
fetchProcessesDone ==
  /\ listResponse.pending
  /\ processes' = listResponse.rows
  /\ totalProcessesCount' = listResponse.count
  /\ listResponse' = NoResponse
  /\ listRows' = ListUniqueProcesses(processes')
  /\ rowStatus' = [i \in DOMAIN listRows' |->
                     GetDeadlineStatus(listRows'[i].deadline, now, tz)]
  /\ UNCHANGED <<dashVars, clockVars, uiVars, queryVars, debounceTimer>>
  /\ UNCHANGED <<overlapVars, storeVars, importVars, formVars, confirmVars,
                 sessionVars, raceVars>>

\* refreshCurrentList: fetchProcesses(getCurrentParams()), as far as the
\* query DbService.getProcesses sends
refreshCurrentList ==
  /\ requestedParams' = Some(GetCurrentParams(UiState))
  /\ queryParams' = requestedParams'
  /\ storeQuery' = Some(GetProcessesQuery(queryParams'))
  /\ UNCHANGED <<dashVars, listVars, clockVars, uiVars, debounceTimer>>
  /\ UNCHANGED <<overlapVars, storeVars, importVars, formVars, confirmVars,
                 sessionVars, raceVars>>

\* DbService.getProcesses called by another caller
getProcesses ==
  /\ \E params \in OtherParams :
       /\ queryParams' = params
       /\ storeQuery' = Some(GetProcessesQuery(params))
  /\ UNCHANGED <<dashVars, listVars, clockVars, uiVars, requestedParams>>
  /\ UNCHANGED <<debounceTimer, overlapVars, storeVars, importVars, formVars, confirmVars,
                 sessionVars, raceVars>>

\* ------------------------------------------------------------------------
\* List view: the filter bar and the pagination bar
\* ------------------------------------------------------------------------

\* the eight filters behind the controls that call handleFilterChange
Filters ==
  [ CGOF |-> filterCgof, sector |-> filterSector,
    entryDateStart |-> filterEntryDateStart, entryDateEnd |-> filterEntryDateEnd,
    urgent |-> filterUrgent, overdue |-> filterOverdue,
    emptySector |-> filterEmptySector, emptyExitDate |-> filterEmptyExitDate ]

FiltersBecome(f) ==
  /\ filterCgof' = f.CGOF
  /\ filterSector' = f.sector
  /\ filterEntryDateStart' = f.entryDateStart
  /\ filterEntryDateEnd' = f.entryDateEnd
  /\ filterUrgent' = f.urgent
  /\ filterOverdue' = f.overdue
  /\ filterEmptySector' = f.emptySector
  /\ filterEmptyExitDate' = f.emptyExitDate

\* the values a control can give its filter
ValuesOf(field) ==
  CASE field = "CGOF"   -> CgofValues
    [] field = "sector" -> SectorValues
    [] field \in {"entryDateStart", "entryDateEnd"} -> DateValues
    [] OTHER -> BOOLEAN

\* the render after a handler: the effect of line 737 calls
\* refreshCurrentList when getCurrentParams is a new function, which it is
\* when one of the values it reads has changed
EffectRefresh ==
  IF GetCurrentParams(UiState') # GetCurrentParams(UiState)
  THEN /\ requestedParams' = Some(GetCurrentParams(UiState'))
       /\ queryParams' = requestedParams'
       /\ storeQuery' = Some(GetProcessesQuery(queryParams'))
  ELSE UNCHANGED queryVars

\* what no handler of the two bars touches
BarsLeaveAlone ==
  /\ UNCHANGED <<dashVars, listVars, clockVars, sortBy>>
  /\ UNCHANGED <<overlapVars, storeVars, importVars, formVars, confirmVars,
                 sessionVars, raceVars>>

\* onChange of the search box: handleFilterChange(setSearchTerm, value); the
\* effect of lines 708-711 clears the timer and sets a new one
changeSearch ==
  /\ \E text \in SearchTexts \ {searchTerm} : searchTerm' = text
  /\ currentPage' = 1
  /\ debounceTimer' = <<DebounceMs>>
  /\ FiltersBecome(Filters)
  /\ UNCHANGED <<debouncedSearchTerm, itemsPerPage>>
  /\ BarsLeaveAlone
  /\ EffectRefresh

\* handleFilterChange(setter, value) of the other eight controls
handleFilterChange ==
  /\ \E field \in DOMAIN Filters :
       \E value \in ValuesOf(field) \ {Filters[field]} :
         FiltersBecome([Filters EXCEPT ![field] = value])
  /\ currentPage' = 1
  /\ UNCHANGED <<searchTerm, debouncedSearchTerm, itemsPerPage, debounceTimer>>
  /\ BarsLeaveAlone
  /\ EffectRefresh

\* the Limpar button (line 1063)
limpar ==
  /\ searchTerm' = ""
  /\ FiltersBecome([ CGOF |-> "", sector |-> "", entryDateStart |-> "",
                     entryDateEnd |-> "", urgent |-> FALSE, overdue |-> FALSE,
                     emptySector |-> FALSE, emptyExitDate |-> FALSE ])
  /\ currentPage' = 1
  /\ debounceTimer' = IF searchTerm # "" THEN <<DebounceMs>> ELSE debounceTimer
  /\ UNCHANGED <<debouncedSearchTerm, itemsPerPage>>
  /\ BarsLeaveAlone
  /\ EffectRefresh

\* the select of the page size (line 1148)
setItemsPerPage ==
  /\ \E size \in PageSizes \ {itemsPerPage} : itemsPerPage' = size
  /\ FiltersBecome(Filters)
  /\ UNCHANGED <<searchTerm, debouncedSearchTerm, currentPage, debounceTimer>>
  /\ BarsLeaveAlone
  /\ EffectRefresh

\* the three kinds of page button (lines 1152-1158)
setCurrentPage ==
  LET totalPages == CeilDiv(totalProcessesCount, itemsPerPage) IN
  /\ \/ /\ currentPage # 1
        /\ currentPage' = Max(currentPage - 1, 1)
     \/ /\ ~(currentPage = totalPages \/ totalPages = 0)
        /\ currentPage' = Min(currentPage + 1, totalPages)
     \/ \E pageNum \in GetPageNumbers(totalPages, currentPage) \ {currentPage} :
          currentPage' = pageNum
  /\ FiltersBecome(Filters)
  /\ UNCHANGED <<searchTerm, debouncedSearchTerm, itemsPerPage, debounceTimer>>
  /\ BarsLeaveAlone
  /\ EffectRefresh

\* time passes while the timer of the search box runs
tick ==
  /\ debounceTimer # <<>>
  /\ debounceTimer[1] > 0
  /\ debounceTimer' = <<Max(debounceTimer[1] - TickMs, 0)>>
  /\ UNCHANGED <<dashVars, listVars, clockVars, uiVars, queryVars>>
  /\ UNCHANGED <<overlapVars, storeVars, importVars, formVars, confirmVars,
                 sessionVars, raceVars>>

\* the timer fires: setDebouncedSearchTerm(searchTerm)
debounceFires ==
  /\ debounceTimer = <<0>>
  /\ debouncedSearchTerm' = searchTerm
  /\ debounceTimer' = <<>>
  /\ FiltersBecome(Filters)
  /\ UNCHANGED <<searchTerm, itemsPerPage, currentPage>>
  /\ BarsLeaveAlone
  /\ EffectRefresh

\* ------------------------------------------------------------------------
\* DbService.importProcesses
\* ------------------------------------------------------------------------

\* what no step of the import touches
ImportLeavesAlone ==
  /\ UNCHANGED <<dashVars, listVars, clockVars, uiVars, queryVars, debounceTimer>>
  /\ UNCHANGED <<overlapVars, usersTable, formVars, confirmVars,
                 sessionVars, raceVars>>

\* importProcesses up to its loop: the CGOF of every row is normalized
importProcesses ==
  /\ importStatus = "idle"
  /\ \E n \in 0..MaxImport :
       importRows' = [i \in 1..n |->
                        [ImportRow(i) EXCEPT !.CGOF = normalizeCGOF(@)]]
  /\ importAt' = 0
  /\ importWrites' = 0
  /\ importStatus' = "running"
  /\ thrown' = ""
  /\ call' = [op |-> "importProcesses", args |-> <<Len(importRows')>>]
  /\ UNCHANGED <<processTable, logs, completedOps>>
  /\ ImportLeavesAlone

\* one turn of the loop: the insert of a chunk, which the store takes whole
\* or refuses whole; an error is thrown, caught, and thrown again
importBatchKeepsGoing ==
  /\ importStatus = "running"
  /\ importAt < Len(importRows)
  /\ importWrites' = importWrites + 1
  /\ importAt' = importAt + BATCH_SIZE
  /\ \/ processTable' = processTable \o Chunk(importRows, importAt)
     \/ UNCHANGED processTable
  /\ UNCHANGED <<importRows, importStatus, thrown, logs, completedOps, call>>
  /\ ImportLeavesAlone

importBatch ==
  /\ importStatus = "running"
  /\ importAt < Len(importRows)
  /\ importWrites' = importWrites + 1
  /\ \/ /\ processTable' = processTable \o Chunk(importRows, importAt)
        /\ importAt' = importAt + BATCH_SIZE
        /\ UNCHANGED <<importStatus, thrown>>
     \/ /\ importStatus' = "failed"
        /\ thrown' = "insert"
        /\ UNCHANGED <<processTable, importAt>>
  /\ UNCHANGED <<importRows, logs, completedOps, call>>
  /\ ImportLeavesAlone

\* after the loop: one log entry, and the call returns
importLogged ==
  /\ importStatus = "running"
  /\ importAt >= Len(importRows)
  /\ \E inserted \in BOOLEAN :
       logs' = logAction(logs, "CREATE", <<>>, inserted)
  /\ importStatus' = "done"
  /\ completedOps' = completedOps + 1
  /\ UNCHANGED <<processTable, thrown, importRows, importAt, importWrites, call>>
  /\ ImportLeavesAlone

NextImport == importProcesses \/ importBatch \/ importLogged

\* ------------------------------------------------------------------------
\* DbService: the writers of 'processes'
\* ------------------------------------------------------------------------

\* what no writer of 'processes' touches
StoreLeavesAlone ==
  /\ UNCHANGED <<dashVars, listVars, clockVars, uiVars, queryVars, debounceTimer>>
  /\ UNCHANGED <<overlapVars, usersTable, importVars, formVars, confirmVars,
                 sessionVars, raceVars>>

\* the call returns after its write and its log entry
Returns(table, log) ==
  /\ processTable' = table
  /\ logs' = log
  /\ completedOps' = completedOps + 1
  /\ thrown' = ""

\* the call throws: nothing was written
Throws(error) ==
  /\ thrown' = error
  /\ UNCHANGED <<processTable, logs, completedOps>>

saveProcess ==
  /\ completedOps < MaxOps
  /\ \E process \in SaveInputs, upserted \in BOOLEAN, inserted \in BOOLEAN :
       LET isUpdate == WithId(processTable, process.id) # {}
           payload == SavePayload(processTable, process, now)
       IN  /\ call' = [op |-> "saveProcess", args |-> <<process>>]
           /\ IF upserted
              THEN Returns(Upsert(processTable, payload),
                           logAction(logs, IF isUpdate THEN "UPDATE" ELSE "CREATE",
                                     <<process.id>>, inserted))
              ELSE Throws("upsert")
  /\ StoreLeavesAlone

updateProcesses ==
  /\ completedOps < MaxOps
  /\ \E ids \in IdSets, updates \in UpdateInputs,
        updated \in BOOLEAN, inserted \in BOOLEAN :
       /\ call' = [op |-> "updateProcesses", args |-> <<ids, updates>>]
       /\ IF updated
          THEN Returns(UpdateRows(processTable, ids, updates, now),
                       logAction(logs, "UPDATE", <<>>, inserted))
          ELSE Throws("update")
  /\ StoreLeavesAlone

\* deleteProcess looks at the error of none of its requests
deleteProcess ==
  /\ completedOps < MaxOps
  /\ \E processId \in StoreIds, deleted \in BOOLEAN, inserted \in BOOLEAN :
       /\ call' = [op |-> "deleteProcess", args |-> <<processId>>]
       /\ Returns(IF deleted THEN NotAmong(processTable, {processId})
                              ELSE processTable,
                  logAction(logs, "DELETE", <<processId>>, inserted))
  /\ StoreLeavesAlone

deleteLastMovement ==
  /\ completedOps < MaxOps
  /\ \E number \in MovementNumbers :
       LET found == getLastProcessByNumber(processTable, number) IN
       /\ call' = [op |-> "deleteLastMovement", args |-> <<number>>]
       /\ IF found = {}
          THEN Throws("Nenhuma movimentação encontrada.")
          ELSE \E last \in found, deleted \in BOOLEAN, inserted \in BOOLEAN :
                 IF deleted
                 THEN Returns(NotAmong(processTable, {processTable[last].id}),
                              logAction(logs, "DELETE",
                                        <<processTable[last].id>>, inserted))
                 ELSE Throws("delete")
  /\ StoreLeavesAlone

deleteProcesses ==
  /\ completedOps < MaxOps
  /\ \E ids \in IdSets, deleted \in BOOLEAN, inserted \in BOOLEAN :
       /\ call' = [op |-> "deleteProcesses", args |-> <<ids>>]
       /\ IF deleted
          THEN Returns(NotAmong(processTable, ids),
                       logAction(logs, "DELETE", <<>>, inserted))
          ELSE Throws("delete")
  /\ StoreLeavesAlone

\* an hour passes between two calls
clockAdvances ==
  /\ now < HoursPerDay * RefDay + 13 + completedOps
  /\ now' = now + 1
  /\ UNCHANGED <<dashVars, listVars, tz, uiVars, queryVars, debounceTimer>>
  /\ UNCHANGED <<overlapVars, storeVars, importVars, formVars, confirmVars,
                 sessionVars, raceVars>>

\* ------------------------------------------------------------------------
\* List view: the process form
\* ------------------------------------------------------------------------

\* what no handler of the form touches
FormLeavesAlone ==
  /\ UNCHANGED <<dashVars, listVars, clockVars, uiVars, debounceTimer>>
  /\ UNCHANGED <<overlapVars, usersTable, importVars, confirmVars,
                 sessionVars, raceVars>>

\* 'Novo Processo': the form opens with today as its entry date
handleOpenModal ==
  /\ ~isModalOpen
  /\ isModalOpen' = TRUE
  /\ formEntryDate' = getTodayLocalISO(now)
  /\ UNCHANGED <<saving, pendingSave, alertText, queryVars, storeVars>>
  /\ FormLeavesAlone

handleCloseModal ==
  /\ isModalOpen
  /\ isModalOpen' = FALSE
  /\ UNCHANGED <<saving, formEntryDate, pendingSave, alertText, queryVars, storeVars>>
  /\ FormLeavesAlone

\* the user, or a script, changes the field entryDate
changeEntryDate ==
  /\ isModalOpen
  /\ \E text \in FormDates \ {formEntryDate} : formEntryDate' = text
  /\ UNCHANGED <<isModalOpen, saving, pendingSave, alertText, queryVars, storeVars>>
  /\ FormLeavesAlone

\* handleSubmit up to its await: without an entry date it alerts and
\* returns; with one it hands the process to saveProcess. The process is a
\* new one or the one being edited
handleSubmit ==
  /\ isModalOpen
  /\ ~saving
  /\ completedOps < MaxOps
  /\ LET entryDate == NoonLocalOfText(formEntryDate) IN
     IF EntryDateMissing(entryDate)
     THEN /\ alertText' = "Data de entrada é obrigatória"
          /\ saving' = FALSE
          /\ UNCHANGED pendingSave
     ELSE /\ saving' = TRUE
          /\ \E id \in FormIds :
               pendingSave' =
                 << [Row(<<"A">>, entryDate, Iso(now), Iso(now)) EXCEPT !.id = id] >>
          /\ UNCHANGED alertText
  /\ UNCHANGED <<isModalOpen, formEntryDate, queryVars, storeVars>>
  /\ FormLeavesAlone

\* handleSubmit from its await on: saveProcess has written and logged, the
\* modal closes and the list is asked for again; or saveProcess has thrown.
\* useApp().saveProcess is taken to call DbService.saveProcess with the
\* current user
handleSubmitSettles ==
  /\ pendingSave # <<>>
  /\ LET process == pendingSave[1]
         isUpdate == WithId(processTable, process.id) # {}
     IN  /\ call' = [op |-> "saveProcess", args |-> <<process>>]
         /\ \E upserted \in BOOLEAN, inserted \in BOOLEAN :
              IF upserted
              THEN /\ Returns(Upsert(processTable, SavePayload(processTable, process, now)),
                              logAction(logs, IF isUpdate THEN "UPDATE" ELSE "CREATE",
                                        <<process.id>>, inserted))
                   /\ alertText' = IF isUpdate THEN "Atualizado com sucesso!"
                                               ELSE "Cadastrado com sucesso!"
                   /\ isModalOpen' = FALSE
                   /\ requestedParams' = Some(GetCurrentParams(UiState))
                   /\ queryParams' = requestedParams'
                   /\ storeQuery' = Some(GetProcessesQuery(queryParams'))
              ELSE /\ Throws("upsert")
                   /\ alertText' = "Erro ao salvar: upsert"
                   /\ UNCHANGED <<isModalOpen, queryVars>>
  /\ saving' = FALSE
  /\ pendingSave' = <<>>
  /\ UNCHANGED formEntryDate
  /\ FormLeavesAlone

NextForm ==
  \/ handleOpenModal
  \/ handleCloseModal
  \/ changeEntryDate
  \/ handleSubmit
  \/ handleSubmitSettles

\* ------------------------------------------------------------------------
\* DbService.saveUser
\* ------------------------------------------------------------------------

saveUser ==
  /\ completedOps < MaxOps
  /\ \E user \in UserInputs, written \in BOOLEAN, inserted \in BOOLEAN :
       LET existingUser == WithId(usersTable, user.id)
           isNewUser == existingUser = {}
       IN  /\ call' = [op |-> "saveUser", args |-> <<user>>]
           /\ IF EmailTaken(usersTable, user)
              THEN /\ thrown' = "Este email já está cadastrado no sistema."
                   /\ UNCHANGED <<usersTable, logs, completedOps>>
              ELSE IF ~HasPassword(user) /\ isNewUser
              THEN /\ thrown' = "Uma senha é obrigatória para novos usuários."
                   /\ UNCHANGED <<usersTable, logs, completedOps>>
              ELSE IF ~written
              THEN /\ thrown' = "Erro ao salvar usuário no banco de dados."
                   /\ UNCHANGED <<usersTable, logs, completedOps>>
              ELSE /\ usersTable' =
                        IF isNewUser
                        THEN Append(usersTable, NewUserRow(usersTable, user))
                        ELSE [i \in DOMAIN usersTable |->
                                IF usersTable[i].id = user.id
                                THEN UpdatedUserRow(usersTable[i], user)
                                ELSE usersTable[i]]
                   /\ logs' = logAction(logs, "USER_MGMT", <<user.id>>, inserted)
                   /\ completedOps' = completedOps + 1
                   /\ thrown' = ""
  /\ UNCHANGED <<dashVars, listVars, clockVars, uiVars, queryVars, debounceTimer>>
  /\ UNCHANGED <<overlapVars, processTable, importVars, formVars, confirmVars,
                 sessionVars, raceVars>>

NextUsers == saveUser

\* ------------------------------------------------------------------------
\* List view: 'Excluir' and its password confirmation
\* ------------------------------------------------------------------------

\* what no handler of the confirmation touches
ConfirmLeavesAlone ==
  /\ UNCHANGED <<dashVars, listVars, clockVars, uiVars, debounceTimer>>
  /\ UNCHANGED <<overlapVars, usersTable, importVars, currentUser>>
  /\ UNCHANGED <<isModalOpen, saving, formEntryDate, pendingSave>>
  /\ UNCHANGED <<sessionVars, raceVars>>

\* the Excluir button of a row of the list (line 1128)
openPasswordModal ==
  /\ ~isPasswordModalOpen
  /\ \E number \in MovementNumbers : selectedProcessNumber' = number
  /\ isPasswordModalOpen' = TRUE
  /\ UNCHANGED <<confirmPassword, passwordError, isVerifyingPassword, confirmCall>>
  /\ UNCHANGED <<alertText, queryVars, storeVars>>
  /\ ConfirmLeavesAlone

\* the X and Cancelar buttons (lines 1221, 1231)
closePasswordModal ==
  /\ isPasswordModalOpen
  /\ isPasswordModalOpen' = FALSE
  /\ UNCHANGED <<selectedProcessNumber, confirmPassword, passwordError,
                 isVerifyingPassword, confirmCall>>
  /\ UNCHANGED <<alertText, queryVars, storeVars>>
  /\ ConfirmLeavesAlone

\* onChange of the password input (line 1227)
changeConfirmPassword ==
  /\ isPasswordModalOpen
  /\ \E text \in PasswordTexts \ {confirmPassword} : confirmPassword' = text
  /\ passwordError' = ""
  /\ UNCHANGED <<selectedProcessNumber, isPasswordModalOpen, isVerifyingPassword,
                 confirmCall>>
  /\ UNCHANGED <<alertText, queryVars, storeVars>>
  /\ ConfirmLeavesAlone

\* handleConfirmPasswordDelete up to its first await; the submit button is
\* disabled while a password is verified and while the input is empty
handleConfirmPasswordDelete ==
  /\ isPasswordModalOpen
  /\ ~isVerifyingPassword
  /\ confirmPassword # ""
  /\ confirmCall.at = "idle"
  /\ currentUser # 0
  /\ isVerifyingPassword' = TRUE
  /\ passwordError' = ""
  /\ confirmCall' = [at |-> "verifyPassword", userId |-> currentUser,
                     password |-> confirmPassword]
  /\ UNCHANGED <<selectedProcessNumber, isPasswordModalOpen, confirmPassword>>
  /\ UNCHANGED <<alertText, queryVars, storeVars>>
  /\ ConfirmLeavesAlone

\* verifyPassword answers: a wrong password ends the handler, a right one
\* makes it call deleteLastMovement(selectedProcessNumber)
verifyPasswordSettles ==
  /\ confirmCall.at = "verifyPassword"
  /\ \E error \in BOOLEAN :
       LET isValid == verifyPassword(usersTable, confirmCall.userId,
                                     confirmCall.password, error)
       IN  IF ~isValid
           THEN /\ passwordError' = "Senha incorreta."
                /\ isVerifyingPassword' = FALSE
                /\ confirmCall' = NoConfirmCall
                /\ UNCHANGED call
           ELSE /\ confirmCall' = [confirmCall EXCEPT !.at = "deleteLastMovement"]
                /\ call' = [op |-> "deleteLastMovement",
                            args |-> <<selectedProcessNumber>>]
                /\ UNCHANGED <<passwordError, isVerifyingPassword>>
  /\ UNCHANGED <<selectedProcessNumber, isPasswordModalOpen, confirmPassword>>
  /\ UNCHANGED <<alertText, queryVars>>
  /\ UNCHANGED <<processTable, logs, completedOps, thrown>>
  /\ ConfirmLeavesAlone

\* deleteLastMovement answers: the modal closes and the list is asked for
\* again, or the error is shown in the modal. useApp().deleteLastMovement
\* is taken to call DbService.deleteLastMovement with the current user
deleteLastMovementSettles ==
  /\ confirmCall.at = "deleteLastMovement"
  /\ LET found == getLastProcessByNumber(processTable, call.args[1]) IN
     IF found = {}
     THEN /\ Throws("Nenhuma movimentação encontrada.")
          /\ passwordError' = "Erro ao excluir: Nenhuma movimentação encontrada."
          /\ UNCHANGED <<isPasswordModalOpen, alertText, queryVars>>
     ELSE \E last \in found, deleted \in BOOLEAN, inserted \in BOOLEAN :
            IF deleted
            THEN /\ Returns(NotAmong(processTable, {processTable[last].id}),
                            logAction(logs, "DELETE",
                                      <<processTable[last].id>>, inserted))
                 /\ isPasswordModalOpen' = FALSE
                 /\ alertText' = "Excluído com sucesso!"
                 /\ requestedParams' = Some(GetCurrentParams(UiState))
                 /\ queryParams' = requestedParams'
                 /\ storeQuery' = Some(GetProcessesQuery(queryParams'))
                 /\ UNCHANGED passwordError
            ELSE /\ Throws("delete")
                 /\ passwordError' = "Erro ao excluir: delete"
                 /\ UNCHANGED <<isPasswordModalOpen, alertText, queryVars>>
  /\ isVerifyingPassword' = FALSE
  /\ confirmCall' = NoConfirmCall
  /\ UNCHANGED <<call, selectedProcessNumber, confirmPassword>>
  /\ ConfirmLeavesAlone

NextConfirm ==
  \/ openPasswordModal
  \/ closePasswordModal
  \/ changeConfirmPassword
  \/ handleConfirmPasswordDelete
  \/ verifyPasswordSettles
  \/ deleteLastMovementSettles

\* ------------------------------------------------------------------------
\* DbService.login, logout, checkAndSeedData
\* ------------------------------------------------------------------------

SessionLeavesAlone ==
  /\ UNCHANGED <<dashVars, listVars, clockVars, uiVars, queryVars, debounceTimer>>
  /\ UNCHANGED <<overlapVars, importVars, formVars, confirmVars, raceVars>>

\* login(email, pass) is called
login ==
  /\ completedOps < MaxOps
  /\ loginCall.at = "idle"
  /\ \E email \in LoginEmails, pass \in LoginPasswords :
       /\ loginCall' = [at |-> "login", email |-> email, pass |-> pass,
                        args |-> <<email, pass>>]
       /\ call' = [op |-> "login", args |-> <<email, pass>>]
  /\ loginResult' = NoLoginResult
  /\ UNCHANGED <<sessionId, seedPending>>
  /\ UNCHANGED <<processTable, usersTable, logs, completedOps, thrown>>
  /\ SessionLeavesAlone

\* login returns user (<<>> for null) to its caller
LoginReturns(user) ==
  /\ loginResult' = [returned |-> TRUE, user |-> user]
  /\ loginCall' = NoLoginCall
  /\ completedOps' = completedOps + 1

\* the body of login: the query answers with an error, with no row (the
\* table is then counted, and an empty one gets the administrator and login
\* calls itself), or with one row; maybeSingle answers with an error when
\* more rows than one match
loginAnswers ==
  /\ loginCall.at = "login"
  /\ \E error \in BOOLEAN, inserted \in BOOLEAN, logged \in BOOLEAN :
       LET found == {i \in DOMAIN usersTable :
                       ILike(usersTable[i].email, loginCall.email)}
       IN  IF error \/ Cardinality(found) > 1
           THEN /\ LoginReturns(<<>>)
                /\ UNCHANGED <<usersTable, logs, sessionId, seedPending>>
           ELSE IF found = {}
           THEN IF Len(usersTable) = 0
                THEN /\ usersTable' = IF inserted
                                      THEN <<SeedAdmin(usersTable)>>
                                      ELSE usersTable
                     /\ loginCall' = [loginCall EXCEPT
                                        !.email = "admin@sistema.com",
                                        !.pass = "123456"]
                     /\ UNCHANGED <<loginResult, completedOps>>
                     /\ UNCHANGED <<logs, sessionId, seedPending>>
                ELSE /\ LoginReturns(<<>>)
                     /\ UNCHANGED <<usersTable, logs, sessionId, seedPending>>
           ELSE LET userRaw == usersTable[CHOOSE i \in found : TRUE] IN
                IF ~userRaw.active
                THEN /\ LoginReturns(<<>>)
                     /\ UNCHANGED <<usersTable, logs, sessionId, seedPending>>
                ELSE IF StoredPassword(userRaw) = <<loginCall.pass>>
                THEN /\ logs' = logAction(logs, "LOGIN", <<>>, logged)
                     /\ sessionId' = <<userRaw.id>>
                     /\ seedPending' = TRUE
                     /\ LoginReturns(<<userRaw.id>>)
                     /\ UNCHANGED usersTable
                ELSE /\ LoginReturns(<<>>)
                     /\ UNCHANGED <<usersTable, logs, sessionId, seedPending>>
  /\ UNCHANGED <<processTable, thrown, call>>
  /\ SessionLeavesAlone

\* checkAndSeedData, which login does not wait for: an empty table of
\* processes gets the initial data, the error of the insert is not looked
\* at, and the seeding is logged
checkAndSeedData ==
  /\ seedPending
  /\ seedPending' = FALSE
  /\ \E stored \in BOOLEAN, inserted \in BOOLEAN :
       IF Len(processTable) = 0
       THEN /\ processTable' = IF stored THEN SeedProcesses(now) ELSE processTable
            /\ logs' = logAction(logs, "CREATE", <<>>, inserted)
       ELSE UNCHANGED <<processTable, logs>>
  /\ UNCHANGED <<sessionId, loginCall, loginResult>>
  /\ UNCHANGED <<usersTable, completedOps, thrown, call>>
  /\ SessionLeavesAlone

logout ==
  /\ sessionId # <<>>
  /\ loginCall.at = "idle"
  /\ \E logged \in BOOLEAN : logs' = logAction(logs, "LOGOUT", <<>>, logged)
  /\ sessionId' = <<>>
  /\ UNCHANGED <<loginCall, loginResult, seedPending>>
  /\ UNCHANGED <<processTable, usersTable, completedOps, thrown, call>>
  /\ SessionLeavesAlone

NextLogin == login \/ loginAnswers \/ checkAndSeedData \/ logout

\* ------------------------------------------------------------------------
\* Calls of DbService that overlap: each request to the store is a step
\* ------------------------------------------------------------------------

RaceLeavesAlone ==
  /\ UNCHANGED <<dashVars, listVars, clockVars, uiVars, queryVars, debounceTimer>>
  /\ UNCHANGED <<overlapVars, importVars, formVars, confirmVars, sessionVars>>

\* deleteLastMovement up to the answer of getLastProcessByNumber
deleteLastMovementReads ==
  /\ completedOps < MaxOps
  /\ deleteCall.at = "idle"
  /\ \E number \in MovementNumbers :
       LET found == getLastProcessByNumber(processTable, number) IN
       /\ call' = [op |-> "deleteLastMovement", args |-> <<number>>]
       /\ IF found = {}
          THEN /\ Throws("Nenhuma movimentação encontrada.")
               /\ UNCHANGED deleteCall
          ELSE \E last \in found :
                 /\ deleteCall' = [at |-> "delete", number |-> number,
                                   last |-> <<processTable[last].id>>]
                 /\ UNCHANGED <<processTable, logs, completedOps, thrown>>
  /\ UNCHANGED <<usersTable, saveCall, userCalls>>
  /\ RaceLeavesAlone

\* delete().eq('id', last.id) and the log entry
deleteLastMovementDeletes ==
  /\ deleteCall.at = "delete"
  /\ \E deleted \in BOOLEAN, inserted \in BOOLEAN :
       IF deleted
       THEN Returns(NotAmong(processTable, {deleteCall.last[1]}),
                    logAction(logs, "DELETE", deleteCall.last, inserted))
       ELSE Throws("delete")
  /\ deleteCall' = NoDeleteCall
  /\ UNCHANGED <<usersTable, call, saveCall, userCalls>>
  /\ RaceLeavesAlone

\* saveProcess up to the answer of its read of createdAt; 'now' is taken
\* when the answer is there
saveProcessReads ==
  /\ completedOps < MaxOps
  /\ saveCall.at = "idle"
  /\ \E process \in RaceSaveInputs :
       LET existing == WithId(processTable, process.id) IN
       /\ call' = [op |-> "saveProcess", args |-> <<process>>]
       /\ saveCall' =
            [at |-> "upsert", process |-> <<process>>,
             existing |-> IF existing = {} THEN <<>>
                          ELSE <<processTable[CHOOSE i \in existing : TRUE].createdAt>>]
  /\ UNCHANGED <<processTable, usersTable, logs, completedOps, thrown>>
  /\ UNCHANGED <<deleteCall, userCalls>>
  /\ RaceLeavesAlone

\* upsert(payload) and the log entry
saveProcessUpserts ==
  /\ saveCall.at = "upsert"
  /\ \E upserted \in BOOLEAN, inserted \in BOOLEAN :
       LET process == saveCall.process[1]
           isUpdate == saveCall.existing # <<>>
           payload == [process EXCEPT
                         !.CGOF = normalizeCGOF(@),
                         !.updatedAt = Iso(now),
                         !.createdAt = IF isUpdate THEN saveCall.existing[1]
                                       ELSE OrElse(@, Iso(now)),
                         !.deadline = IF @ = NoDate THEN NullDate ELSE @]
       IN  IF upserted
           THEN Returns(Upsert(processTable, payload),
                        logAction(logs, IF isUpdate THEN "UPDATE" ELSE "CREATE",
                                  <<process.id>>, inserted))
           ELSE Throws("upsert")
  /\ saveCall' = NoSaveCall
  /\ UNCHANGED <<usersTable, call, deleteCall, userCalls>>
  /\ RaceLeavesAlone

NextRace ==
  \/ deleteLastMovementReads
  \/ deleteLastMovementDeletes
  \/ saveProcessReads
  \/ saveProcessUpserts

\* a caller of saveUser ends its call
UserCallEnds(caller, error) ==
  /\ userCalls' = [userCalls EXCEPT ![caller].at = "done"]
  /\ thrown' = error

UserRaceLeavesAlone ==
  /\ UNCHANGED <<processTable, call, deleteCall, saveCall>>
  /\ RaceLeavesAlone

\* saveUser up to the answer of eq('email', user.email)
saveUserChecksEmail(caller) ==
  /\ userCalls[caller].at = "idle"
  /\ \E user \in RaceUserInputs :
       IF EmailTaken(usersTable, user)
       THEN /\ userCalls' = [userCalls EXCEPT ![caller].at = "done",
                                              ![caller].user = <<user>>]
            /\ thrown' = "Este email já está cadastrado no sistema."
       ELSE /\ userCalls' = [userCalls EXCEPT ![caller].at = "email",
                                              ![caller].user = <<user>>]
            /\ UNCHANGED thrown
  /\ UNCHANGED <<usersTable, logs, completedOps>>
  /\ UserRaceLeavesAlone

\* the answer of eq('id', user.id), and the check of the password
saveUserReadsUser(caller) ==
  /\ userCalls[caller].at = "email"
  /\ LET user == userCalls[caller].user[1]
         isNewUser == WithId(usersTable, user.id) = {}
     IN  IF ~HasPassword(user) /\ isNewUser
         THEN UserCallEnds(caller, "Uma senha é obrigatória para novos usuários.")
         ELSE /\ userCalls' = [userCalls EXCEPT
                                 ![caller].at = IF isNewUser THEN "user" ELSE "write",
                                 ![caller].isNewUser = isNewUser]
              /\ UNCHANGED thrown
  /\ UNCHANGED <<usersTable, logs, completedOps>>
  /\ UserRaceLeavesAlone

\* the count of the users, asked for a new user only
saveUserCounts(caller) ==
  /\ userCalls[caller].at = "user"
  /\ userCalls' = [userCalls EXCEPT ![caller].at = "write",
                                    ![caller].first = Len(usersTable) = 0]
  /\ UNCHANGED <<usersTable, logs, completedOps, thrown>>
  /\ UserRaceLeavesAlone

\* the insert or the update, and the log entry; the id is taken to be the
\* key of the table, so an insert of an id that is there fails
saveUserWrites(caller) ==
  /\ userCalls[caller].at = "write"
  /\ \E written \in BOOLEAN, inserted \in BOOLEAN :
       LET user == userCalls[caller].user[1]
           isNewUser == userCalls[caller].isNewUser
           row == [NewUserRow(usersTable, user) EXCEPT
                     !.role = IF userCalls[caller].first THEN "ADMIN"
                              ELSE user.role]
       IN  IF ~written \/ (isNewUser /\ WithId(usersTable, row.id) # {})
           THEN /\ UserCallEnds(caller, "Erro ao salvar usuário no banco de dados.")
                /\ UNCHANGED <<usersTable, logs, completedOps>>
           ELSE /\ usersTable' =
                     IF isNewUser THEN Append(usersTable, row)
                     ELSE [i \in DOMAIN usersTable |->
                             IF usersTable[i].id = user.id
                             THEN UpdatedUserRow(usersTable[i], user)
                             ELSE usersTable[i]]
                /\ logs' = logAction(logs, "USER_MGMT", <<user.id>>, inserted)
                /\ completedOps' = completedOps + 1
                /\ UserCallEnds(caller, "")
  /\ UserRaceLeavesAlone

NextUserRace ==
  \E caller \in {1, 2} :
    \/ saveUserChecksEmail(caller)
    \/ saveUserReadsUser(caller)
    \/ saveUserCounts(caller)
    \/ saveUserWrites(caller)

NextMovements == saveProcess \/ deleteLastMovement \/ clockAdvances

NextStore ==
  \/ saveProcess
  \/ updateProcesses
  \/ deleteProcess
  \/ deleteLastMovement
  \/ deleteProcesses
  \/ clockAdvances

NextFilters ==
  \/ changeSearch
  \/ handleFilterChange
  \/ limpar
  \/ setItemsPerPage
  \/ setCurrentPage
  \/ tick
  \/ debounceFires

NextResolver == fetchDashboardData \/ fetchDashboardDataDone

NextAggregator == fetchDashboardData \/ fetchDashboardDataDone \/ fetchProcessesDone

NextQuery == refreshCurrentList \/ getProcesses

NextOverlap ==
  \/ fetchDashboardData
  \/ fetchDashboardDataAgain
  \/ fetchDashboardDataDone
  \/ fetchDashboardDataDoneEarlier
  \/ tableChanges

Next ==
  \/ fetchDashboardData
  \/ fetchDashboardDataDone
  \/ fetchProcessesDone
  \/ refreshCurrentList
  \/ getProcesses
  \/ NextFilters
  \/ NextOverlap
  \/ NextImport
  \/ NextStore
  \/ NextForm
  \/ NextUsers
  \/ NextConfirm
  \/ NextLogin
  \/ NextRace
  \/ NextUserRace

Spec == Init /\ [][Next]_vars

\* the Dashboard over the inputs of the resolver
SpecResolver == InitResolver /\ [][NextResolver]_vars

\* Dashboard and list view over the inputs of the aggregator
SpecAggregator == InitAggregator /\ [][NextAggregator]_vars

\* the list view's query, from any state of its filters
SpecQuery == InitQuery /\ [][NextQuery]_vars

\* the list view's filter bar and pagination bar
SpecFilters == InitFilters /\ [][NextFilters]_vars

\* the Dashboard with fetches that overlap
SpecOverlap == InitOverlap /\ [][NextOverlap]_vars

\* the writers of 'processes', called one after the other
SpecStore == InitStore /\ [][NextStore]_vars

\* the writers the list view calls for one process at a time
SpecMovements == InitStore /\ [][NextMovements]_vars

\* the process form of the list view
SpecForm == InitForm /\ [][NextForm]_vars

\* saveUser, called again and again
SpecUsers == InitUsers /\ [][NextUsers]_vars

\* 'Excluir' with its password confirmation
SpecConfirm == InitConfirm /\ [][NextConfirm]_vars

\* the login page
SpecLogin == InitLogin /\ [][NextLogin]_vars

\* a deletion of the last movement and a save that overlap
SpecRace == InitStore /\ [][NextRace]_vars

\* two callers of saveUser at once, no user yet
SpecUserRace == InitUsers /\ [][NextUserRace]_vars

\* one bulk import
SpecImport == InitImport /\ [][NextImport]_vars

\* ------------------------------------------------------------------------
\* What the claims are stated with
\* ------------------------------------------------------------------------

\* a text without its surrounding whitespace: from its first to its last
\* character that is no whitespace
Core(text) ==
  LET solid == {i \in DOMAIN text : text[i] \notin WhiteSpace} IN
  IF solid = {} THEN <<>>
  ELSE SubSeq(text, CHOOSE i \in solid : \A j \in solid : i <= j,
                    CHOOSE i \in solid : \A j \in solid : i >= j)

\* two process numbers that differ by surrounding whitespace at most
SameNumber(a, b) == Core(a) = Core(b)

\* updatedAt if present, else createdAt, else entryDate
FallbackDate(p) ==
  IF Truthy(p.updatedAt) THEN p.updatedAt
  ELSE IF Truthy(p.createdAt) THEN p.createdAt
  ELSE p.entryDate

Parses(date) == ~GetTime(date).nan

Instant(date) == GetTime(date).v

AllParse(list) ==
  \A i \in DOMAIN list : Parses(list[i].entryDate) /\ Parses(FallbackDate(list[i]))

\* r is at least as late as q: by entryDate, then by the fallback date
NotEarlier(r, q) ==
  \/ Instant(r.entryDate) > Instant(q.entryDate)
  \/ /\ Instant(r.entryDate) = Instant(q.entryDate)
     /\ Instant(FallbackDate(r)) >= Instant(FallbackDate(q))

\* two rows of one number with the same entryDate and fallback instants
FullTie(p, q) ==
  /\ SameNumber(p.number, q.number)
  /\ Instant(p.entryDate) = Instant(q.entryDate)
  /\ Instant(FallbackDate(p)) = Instant(FallbackDate(q))

NoFullTie(list) ==
  \A i, j \in DOMAIN list : i # j => ~FullTie(list[i], list[j])

PermutationsOf(list) ==
  { [i \in DOMAIN list |-> list[f[i]]] :
      f \in {g \in [DOMAIN list -> DOMAIN list] :
               \A i, j \in DOMAIN list : i # j => g[i] # g[j]} }

\* the mapping from process number to selected record
Mapping(list) == {<<Core(list[i].number), list[i]>> : i \in DOMAIN list}

\* C1: when every date of the input parses, the resolver holds for each
\* number of the input a record of that number that no record of the number
\* is later than, by entryDate and then by the fallback date (updatedAt,
\* else createdAt, else entryDate).
C1_LatestSelected ==
  AllParse(data) =>
    \A i \in DOMAIN data :
      \E j \in DOMAIN uniqueProcesses :
        /\ uniqueProcesses[j] \in Range(data)
        /\ SameNumber(uniqueProcesses[j].number, data[i].number)
        /\ \A k \in DOMAIN data :
             SameNumber(data[k].number, data[i].number)
               => NotEarlier(uniqueProcesses[j], data[k])

\* two rows of one number and one entryDate: the second has the later
\* fallback date and is the one selected
C1_Witness ==
  /\ AllParse(data)
  /\ \E i, j \in DOMAIN data :
       /\ i < j
       /\ SameNumber(data[i].number, data[j].number)
       /\ Instant(data[i].entryDate) = Instant(data[j].entryDate)
       /\ Instant(FallbackDate(data[j])) > Instant(FallbackDate(data[i]))
       /\ ~Truthy(data[j].updatedAt)
       /\ data[j] \in Range(uniqueProcesses)

\* C2: the output holds exactly one record for each number of the input,
\* numbers being the same when they differ by surrounding whitespace only
\* (so 'A' and 'a' are two numbers).
C2_OnePerTrimmedNumber ==
  /\ \A j \in DOMAIN uniqueProcesses : uniqueProcesses[j] \in Range(data)
  /\ \A i \in DOMAIN data :
       \E j \in DOMAIN uniqueProcesses :
         SameNumber(uniqueProcesses[j].number, data[i].number)
  /\ \A j, k \in DOMAIN uniqueProcesses :
       j # k => ~SameNumber(uniqueProcesses[j].number, uniqueProcesses[k].number)

\* 'A', ' A' with a tab after it and 'a' in one input: two entries
C2_Witness ==
  /\ \E i, j, k \in DOMAIN data :
       /\ data[i].number = <<"A">>
       /\ data[j].number # <<"A">> /\ SameNumber(data[j].number, <<"A">>)
       /\ data[k].number = <<"a">>
  /\ Len(uniqueProcesses) = 2

C4_Idempotent ==
  Range(UniqueProcesses(uniqueProcesses)) = Range(uniqueProcesses)

\* an output of two records from an input with a record more
C4_Witness ==
  /\ Len(uniqueProcesses) = 2
  /\ Len(data) > 2

\* C5 as claimed: when a number has a record whose entryDate is missing or
\* does not parse and a record whose entryDate is a real date, the record
\* selected for the number has a real date.
C5_RealDateBeatsUnparseable ==
  \A i, j \in DOMAIN data :
    ( /\ SameNumber(data[i].number, data[j].number)
      /\ ~(Truthy(data[i].entryDate) /\ Parses(data[i].entryDate))
      /\ Truthy(data[j].entryDate) /\ Parses(data[j].entryDate) )
    => \A k \in DOMAIN uniqueProcesses :
         SameNumber(uniqueProcesses[k].number, data[i].number)
           => Truthy(uniqueProcesses[k].entryDate) /\ Parses(uniqueProcesses[k].entryDate)

\* the calendar day a deadline names
DeadlineDay(deadline) == DatePart(deadline)

\* the class of a record against the local calendar day of the clock
ClassOf(p) ==
  LET today == LocalDay(now, tz) IN
  IF ~Truthy(p.deadline) THEN "OnTime"
  ELSE IF DeadlineDay(p.deadline) < today THEN "Overdue"
  ELSE IF DeadlineDay(p.deadline) <= today + 5 THEN "Near"
  ELSE "OnTime"

\* the label the list shows for a class
LabelOf(class) ==
  CASE class = "Overdue" -> "Vencido"
    [] class = "Near"    -> "Proximo"
    [] class = "OnTime"  -> "No Prazo"

InClass(list, class) == Cardinality({i \in DOMAIN list : ClassOf(list[i]) = class})

\* C6 as claimed: the Dashboard counts as overdue, near and on time the
\* records whose deadline day is before today, from today to today + 5, and
\* later or missing; and the list labels every row that has a deadline with
\* the class of its deadline day.
C6_DeadlineClassByDay ==
  /\ stats.overdue = InClass(uniqueProcesses, "Overdue")
  /\ stats.nearDeadline = InClass(uniqueProcesses, "Near")
  /\ \A i \in DOMAIN stats.deadlineData :
       stats.deadlineData[i].name = "No Prazo"
         => stats.deadlineData[i].value = InClass(uniqueProcesses, "OnTime")
  /\ \A i \in DOMAIN listRows :
       Truthy(listRows[i].deadline)
         => rowStatus[i] = LabelOf(ClassOf(listRows[i]))

RECURSIVE SumValues(_)
SumValues(obj) ==
  IF obj = <<>> THEN 0
  ELSE obj[1].value + SumValues(SubSeq(obj, 2, Len(obj)))

\* C7 as claimed: the counts of the sectors, of the origins, of the
\* interested parties and of the entry months each sum to the number of
\* resolved processes.
C7_EveryDimensionSumsToTotal ==
  LET c == Counts(uniqueProcesses, now, tz) IN
  /\ SumValues(c.sectorCount) = stats.totalUnique
  /\ SumValues(c.originCount) = stats.totalUnique
  /\ SumValues(c.interestedCount) = stats.totalUnique
  /\ SumValues(c.monthCount) = stats.totalUnique
  /\ SumValues(stats.originData) = stats.totalUnique

\* the group of a record in each table: its text without surrounding
\* whitespace, 'Nao Informado' when nothing is left
SectorOf(p) == IF Core(p.sector) = <<>> THEN NaoInformado ELSE Core(p.sector)

InterestedOf(p) ==
  IF Core(p.interested) = <<>> THEN NaoInformado ELSE Core(p.interested)

Groups(list, GroupOf(_)) == {GroupOf(list[i]) : i \in DOMAIN list}

GroupCount(list, GroupOf(_), g) ==
  Cardinality({i \in DOMAIN list : GroupOf(list[i]) = g})

\* the place of the first record of a group
FirstSeen(list, GroupOf(_), g) ==
  CHOOSE i \in DOMAIN list :
    /\ GroupOf(list[i]) = g
    /\ \A j \in DOMAIN list : GroupOf(list[j]) = g => i <= j

\* group g comes before group h: more records, or as many and seen first
RanksBefore(list, GroupOf(_), g, h) ==
  \/ GroupCount(list, GroupOf, g) > GroupCount(list, GroupOf, h)
  \/ /\ GroupCount(list, GroupOf, g) = GroupCount(list, GroupOf, h)
     /\ FirstSeen(list, GroupOf, g) < FirstSeen(list, GroupOf, h)

\* table holds the first n groups of the list in that order, with their counts
TopTable(table, list, GroupOf(_), n) ==
  LET groups == Groups(list, GroupOf) IN
  /\ Len(table) <= n
  /\ Len(table) = n \/ Len(table) = Cardinality(groups)
  /\ \A i \in DOMAIN table :
       /\ table[i].name \in groups
       /\ table[i].value = GroupCount(list, GroupOf, table[i].name)
  /\ \A i, j \in DOMAIN table :
       i < j => RanksBefore(list, GroupOf, table[i].name, table[j].name)
  /\ \A g \in groups :
       (\A i \in DOMAIN table : table[i].name # g)
         => \A i \in DOMAIN table : RanksBefore(list, GroupOf, table[i].name, g)

\* C8 as claimed: the sector table is the 8 largest sectors and the
\* interested-party table the 5 largest interested parties, by descending
\* count, groups of equal count in the order their first record was met.
C8_TopTablesFirstSeenOrder ==
  /\ TopTable(stats.sectorData, uniqueProcesses, SectorOf, TopSectors)
  /\ TopTable(stats.interestedData, uniqueProcesses, InterestedOf, TopInterested)

\* the filter fields of the descriptor
FilterKeys ==
  {"CGOF", "sector", "entryDateStart", "entryDateEnd",
   "urgent", "overdue", "emptySector", "emptyExitDate"}

ToggleKeys == {"urgent", "overdue", "emptySector", "emptyExitDate"}

\* the value of the list view's state behind a filter field
UiValue(key) ==
  CASE key = "CGOF"           -> filterCgof
    [] key = "sector"         -> filterSector
    [] key = "entryDateStart" -> filterEntryDateStart
    [] key = "entryDateEnd"   -> filterEntryDateEnd
    [] key = "urgent"         -> filterUrgent
    [] key = "overdue"        -> filterOverdue
    [] key = "emptySector"    -> filterEmptySector
    [] key = "emptyExitDate"  -> filterEmptyExitDate

UiFalsy(key) ==
  IF key \in ToggleKeys THEN UiValue(key) = FALSE ELSE UiValue(key) = ""

\* the constraint the store adds for a filter field
ConstraintOf(key) ==
  CASE key = "CGOF"           -> [op |-> "eq",    column |-> "CGOF"]
    [] key = "sector"         -> [op |-> "ilike", column |-> "sector"]
    [] key = "entryDateStart" -> [op |-> "gte",   column |-> "entryDate"]
    [] key = "entryDateEnd"   -> [op |-> "lte",   column |-> "entryDate"]
    [] key = "urgent"         -> [op |-> "eq",    column |-> "urgent"]
    [] key = "overdue"        -> [op |-> "lt",    column |-> "deadline"]
    [] key = "emptySector"    -> [op |-> "or",    column |-> "sector"]
    [] key = "emptyExitDate"  -> [op |-> "is",    column |-> "processDate"]

HasConstraint(query, key) ==
  \E i \in DOMAIN query.filters :
    /\ query.filters[i].op = ConstraintOf(key).op
    /\ query.filters[i].column = ConstraintOf(key).column

\* the filters object of the last call of the store, {} when it had none
CalledFilters ==
  IF queryParams = NoParams THEN NoFilters ELSE FiltersOf(queryParams[1])

\* the field is there with a value that is neither undefined, '' nor false
FilterGiven(filters, key) ==
  /\ key \in DOMAIN filters
  /\ filters[key] # Undefined
  /\ IF key \in ToggleKeys THEN filters[key][1] = TRUE ELSE filters[key][1] # ""

\* the store adds the constraint of a filter exactly when the filter is given
StoreFollowsFilters ==
  storeQuery # NoQuery =>
    \A key \in FilterKeys :
      HasConstraint(storeQuery[1], key) <=> FilterGiven(CalledFilters, key)

\* C9 as claimed: the descriptor has no key for a filter whose value in the
\* list view is falsy or empty, a toggle is in it only when it is true, and
\* the store adds no constraint for a filter that is not in the descriptor.
C9_FalsyFilterKeyAbsent ==
  /\ requestedParams # Undefined =>
       LET filters == requestedParams[1].filters[1] IN
       \A key \in FilterKeys :
         IF UiFalsy(key) THEN key \notin DOMAIN filters
         ELSE key \in DOMAIN filters /\ filters[key] = Some(UiValue(key))
  /\ StoreFollowsFilters

\* C9: the descriptor has every filter key; the value of a filter whose
\* value in the list view is falsy or empty is undefined, the value of any
\* other is the list view's value (true for a toggle); and the store adds the
\* constraint of a filter exactly when the filter is in the descriptor with a
\* value that is neither undefined, empty nor false.
C9_FalsyFilterUndefined ==
  /\ requestedParams # Undefined =>
       LET filters == requestedParams[1].filters[1] IN
       \A key \in FilterKeys :
         /\ key \in DOMAIN filters
         /\ filters[key] = IF UiFalsy(key) THEN Undefined ELSE Some(UiValue(key))
  /\ StoreFollowsFilters

\* urgent off and no sector, with an origin and the overdue toggle on: the
\* store has been called with the descriptor and has added two constraints
C9_Witness ==
  /\ filterUrgent = FALSE /\ filterSector = ""
  /\ filterCgof # "" /\ filterOverdue
  /\ requestedParams # Undefined
  /\ queryParams = requestedParams
  /\ requestedParams[1].filters[1]["urgent"] = Undefined
  /\ requestedParams[1].filters[1]["sector"] = Undefined
  /\ storeQuery # NoQuery
  /\ Len(storeQuery[1].filters) = 2
  /\ HasConstraint(storeQuery[1], "CGOF")
  /\ HasConstraint(storeQuery[1], "overdue")

EntryDateDescending == [column |-> "entryDate", ascending |-> FALSE]

\* the last call of the store had no sortBy
CalledWithoutSortBy ==
  queryParams = NoParams \/ queryParams[1].sortBy = Undefined

\* C10: with the list view's sort field at its default, entryDate, the
\* descriptor asks for entryDate descending and the store orders by entryDate
\* descending; and a store query without a sortBy orders by entryDate
\* descending.
C10_DefaultSortEntryDateDesc ==
  /\ (requestedParams # Undefined /\ sortBy = "entryDate") =>
       /\ requestedParams[1].sortBy = Some([field |-> "entryDate", order |-> "desc"])
       /\ queryParams = requestedParams => storeQuery[1].order = EntryDateDescending
  /\ (storeQuery # NoQuery /\ CalledWithoutSortBy) =>
       storeQuery[1].order = EntryDateDescending

\* the list view in its default sort has asked for its list, and then
\* another caller has asked for a page without a sortBy
C10_Witness ==
  /\ sortBy = "entryDate"
  /\ requestedParams # Undefined
  /\ requestedParams[1].sortBy[1].order = "desc"
  /\ queryParams # NoParams
  /\ queryParams # requestedParams
  /\ queryParams[1].sortBy = Undefined
  /\ storeQuery[1].order = EntryDateDescending

\* the rows a call of the store for page p of size s asks for
RowsOfPage(p, s) == ((p - 1) * s) .. (p * s - 1)

\* the rows the last call of the store asked for
RowsAsked == storeQuery[1].from .. storeQuery[1].to

\* the rows the store would be asked for, were the page of the last call
\* one later
RowsOfNextPage ==
  LET q == GetProcessesQuery(Some([queryParams[1] EXCEPT !.page = @ + 1]))
  IN  q.from .. q.to

\* C11: the descriptor of the list view carries its page and its page size;
\* a call of the store with a descriptor of page p and size s asks for the
\* rows (p-1)*s to p*s-1, so page 1 starts at row 0, and the rows of the
\* next page start right after the rows of the page and share none with them.
C11_PagesOneIndexedContiguous ==
  /\ requestedParams # Undefined =>
       /\ requestedParams[1].page = currentPage
       /\ requestedParams[1].itemsPerPage = itemsPerPage
  /\ (storeQuery # NoQuery /\ queryParams # NoParams) =>
       LET p == queryParams[1].page
           s == queryParams[1].itemsPerPage
       IN  /\ RowsAsked = RowsOfPage(p, s)
           /\ Cardinality(RowsAsked) = s
           /\ p = 1 => storeQuery[1].from = 0
           /\ RowsOfNextPage = RowsOfPage(p + 1, s)
           /\ RowsOfNextPage \cap RowsAsked = {}
           /\ \A r \in RowsOfNextPage : r > storeQuery[1].to
           /\ storeQuery[1].to + 1 \in RowsOfNextPage

\* the list view has asked for its second page of ten rows
C11_Witness ==
  /\ currentPage = 2 /\ itemsPerPage = 10
  /\ requestedParams # Undefined
  /\ queryParams = requestedParams
  /\ storeQuery # NoQuery
  /\ storeQuery[1].from = 10 /\ storeQuery[1].to = 19

\* a step in which the list view asks the store for its list
FetchIssued == requestedParams' # requestedParams

\* C12 as claimed: after a press of Limpar every field of the list view's
\* filter, sort and pagination state has its default.
C12_LimparRestoresDefaults ==
  [][limpar => UiDefaults']_vars

\* C14 as claimed: no step that changes the text of the search box asks for
\* the list, and a step that asks for the list with a new search text is
\* the firing of the timer a full delay after the last change, and carries
\* the text of the box.
C14_SearchDebounced ==
  [][ /\ searchTerm' # searchTerm => ~FetchIssued
      /\ (FetchIssued /\ requestedParams'[1].searchTerm # requestedParams[1].searchTerm)
           => /\ debounceTimer = <<0>>
              /\ requestedParams'[1].searchTerm = Some(searchTerm) ]_vars

\* ------------------------------------------------------------------------
\* C13
\* ------------------------------------------------------------------------

BothSettled == ~dashResponse.pending /\ ~dashEarlier.pending

\* C13 (as claimed): once every fetch of the Dashboard has settled, the data
\* it renders is the answer to the request issued last, whichever answer
\* arrived last.
C13_LaterRequestWins ==
  BothSettled =>
    /\ data = dashIssued.rows
    /\ realTotalMovements = dashIssued.count

\* ------------------------------------------------------------------------
\* C15
\* ------------------------------------------------------------------------

IsOldRow(r) == r = OldRow

IsImportedRow(r) == r # OldRow

\* the rows of the table that came with the import, in the table's order
Imported == SelectSeq(processTable, IsImportedRow)

\* the k-th batch of the file
Batch(k) ==
  SubSeq(importRows, (k - 1) * BATCH_SIZE + 1, Min(k * BATCH_SIZE, Len(importRows)))

\* C15: an import of N rows that succeeds has sent ceil(N / 100) inserts,
\* the k-th of them holding the k-th hundred of the file, and the table
\* holds the file in its order after the rows it held; when the k-th insert
\* fails the table holds batches 1..k-1, k inserts were sent and no other
\* is sent afterwards, and the error is thrown to the caller.
C15_ImportInBatches ==
  [][ /\ SelectSeq(processTable', IsOldRow) = SelectSeq(processTable, IsOldRow)
      /\ importWrites' # importWrites =>
            /\ importWrites' = importWrites + 1
            /\ processTable' \in {processTable,
                                  processTable \o Batch(importWrites')}
            /\ processTable' = processTable <=> importStatus' = "failed"
      /\ importStatus' = "done" =>
            /\ importWrites' = CeilDiv(Len(importRows'), BATCH_SIZE)
            /\ Imported' = importRows'
            /\ thrown' = ""
      /\ importStatus' = "failed" =>
            /\ thrown' # ""
            /\ Imported' = SubSeq(importRows', 1, (importWrites' - 1) * BATCH_SIZE)
      /\ importStatus = "failed" =>
            /\ importWrites' = importWrites
            /\ processTable' = processTable ]_vars

\* the second of three batches has failed
C15_Witness ==
  /\ importStatus = "failed"
  /\ importWrites = 2
  /\ Len(importRows) > 2 * BATCH_SIZE
  /\ Len(Imported) = BATCH_SIZE

\* ------------------------------------------------------------------------
\* C16
\* ------------------------------------------------------------------------

IsPrefix(a, b) == Len(a) <= Len(b) /\ SubSeq(b, 1, Len(a)) = a

\* C16 (as claimed): the log only grows, its earlier entries unchanged, and
\* every call of a writer that returns has appended exactly one entry.
C16_OneLogEntryPerOperation ==
  [][ /\ IsPrefix(logs, logs')
      /\ completedOps' = completedOps + 1 => Len(logs') = Len(logs) + 1 ]_vars

\* ------------------------------------------------------------------------
\* C17
\* ------------------------------------------------------------------------

\* the ids of the rows the call that has just returned wrote to
Written(c) ==
  CASE c.op = "saveProcess"     -> {c.args[1].id}
    [] c.op = "updateProcesses" -> c.args[1]
    [] OTHER                    -> {}

\* C17 (as claimed): after saveProcess or updateProcesses has returned, every
\* row it wrote to has the time of the write as its updatedAt, and, if the
\* row was there before, the createdAt it had, whatever the caller supplied.
C17_CreatedAtKept ==
  [][ completedOps' = completedOps + 1 =>
        \A i \in DOMAIN processTable' :
          processTable'[i].id \in Written(call') =>
            /\ processTable'[i].updatedAt = Iso(now)
            /\ \A j \in WithId(processTable, processTable'[i].id) :
                 processTable'[i].createdAt = processTable[j].createdAt ]_vars

\* ------------------------------------------------------------------------
\* C18
\* ------------------------------------------------------------------------

RemoveAt(table, i) == SubSeq(table, 1, i - 1) \o SubSeq(table, i + 1, Len(table))

Later(a, b) == GetTime(a).v > GetTime(b).v

\* movement p is more recent than q: it entered later, or on the same day
\* and was created later
MoreRecent(p, q) ==
  \/ Later(p.entryDate, q.entryDate)
  \/ p.entryDate = q.entryDate /\ Later(p.createdAt, q.createdAt)

MovementsOf(number) == {i \in DOMAIN processTable : processTable[i].number = number}

\* C18: a call of deleteLastMovement(number) that returns has removed one
\* row, a movement of the number than which none is more recent, and has
\* left every other row as it was, in its place; a call for a number with no
\* movement throws; a call that throws has removed nothing.
C18_DeletesMostRecentOnly ==
  [][ deleteLastMovement =>
        LET movements == MovementsOf(call'.args[1]) IN
        /\ movements = {} => thrown' # ""
        /\ thrown' # "" => processTable' = processTable
        /\ thrown' = "" =>
             \E i \in movements :
               /\ processTable' = RemoveAt(processTable, i)
               /\ \A j \in movements :
                    ~MoreRecent(processTable[j], processTable[i]) ]_vars

\* the later of two movements of 'A' of the same day has been removed; the
\* earlier one and the movement of 'B' are still there
C18_Witness ==
  /\ call = [op |-> "deleteLastMovement", args |-> << <<"A">> >>]
  /\ thrown = ""
  /\ \E i, j \in DOMAIN processTable :
       /\ processTable[i].number = <<"A">>
       /\ processTable[i].createdAt = Iso(5)
       /\ processTable[j].number = <<"B">>
  /\ \A i \in DOMAIN processTable : processTable[i].createdAt # Iso(6)

\* ------------------------------------------------------------------------
\* C19
\* ------------------------------------------------------------------------

\* C19: handleSubmit over a form whose entry date is empty hands nothing to
\* saveProcess and writes nothing to the store, leaves the modal open, and
\* leaves the saving flag false.
C19_AbsentEntryDateBlocks ==
  [][ (handleSubmit /\ formEntryDate = NoDate) =>
        /\ pendingSave' = <<>>
        /\ processTable' = processTable
        /\ logs' = logs
        /\ isModalOpen'
        /\ ~saving' ]_vars

\* the form is open with an empty entry date and has just refused it
C19_Witness ==
  /\ isModalOpen
  /\ formEntryDate = NoDate
  /\ alertText = "Data de entrada é obrigatória"
  /\ ~saving
  /\ pendingSave = <<>>

\* ------------------------------------------------------------------------
\* C20
\* ------------------------------------------------------------------------

\* the email of the user of the call is the email of a row with another id
BelongsToAnother(table, user) ==
  \E i \in DOMAIN table : table[i].email = user.email /\ table[i].id # user.id

PasswordOf(row) == IF row.password # "" THEN row.password ELSE row.password_hash

\* C21: deleteLastMovement is called from the confirmation only when the
\* current user has a row, the row is active, and the password it holds is
\* the one that was typed when the confirmation was submitted; a
\* confirmation that verifyPassword refuses leaves the table and the log as
\* they were.
C21_PasswordGuardsDelete ==
  [][ /\ (call' # call /\ call'.op = "deleteLastMovement") =>
            /\ confirmCall.at = "verifyPassword"
            /\ confirmCall.userId = currentUser
            /\ \E i \in DOMAIN usersTable :
                 /\ usersTable[i].id = currentUser
                 /\ usersTable[i].active
                 /\ PasswordOf(usersTable[i]) = confirmCall.password
                 /\ confirmCall.password # ""
      /\ processTable' # processTable =>
            /\ confirmCall.at = "deleteLastMovement"
            /\ call.op = "deleteLastMovement"
      /\ passwordError' = "Senha incorreta." =>
            /\ processTable' = processTable
            /\ logs' = logs
            /\ call' = call ]_vars

\* a wrong password was refused: nothing was called
C21_Witness ==
  /\ passwordError = "Senha incorreta."
  /\ confirmPassword = "errada"
  /\ currentUser = 1
  /\ isPasswordModalOpen
  /\ call = NoCall
  /\ confirmCall = NoConfirmCall

\* ------------------------------------------------------------------------
\* C22
\* ------------------------------------------------------------------------

\* C22: a call of a writer that the store answered with an error does not
\* return as a successful one does: when deleteProcess(processId) returns
\* without throwing, the store holds no row with that id any more.
C22_FailureNotSilent ==
  [][ ( /\ call'.op = "deleteProcess"
        /\ completedOps' = completedOps + 1
        /\ thrown' = "" )
      => WithId(processTable', call'.args[1]) = {} ]_vars

\* ------------------------------------------------------------------------
\* C23
\* ------------------------------------------------------------------------

\* C23: the CGOF of every stored row is one of Recebimento, Gabinete do
\* Coordenador and Assessoria, whatever saveProcess, updateProcesses and the
\* other writers were handed; and normalizeCGOF leaves a value it answers
\* with as it is.
C23_CgofInClosedSet ==
  /\ \A i \in DOMAIN processTable : processTable[i].CGOF \in CgofNormalized
  /\ \A value \in CgofNormalized : normalizeCGOF(value) = value

\* ------------------------------------------------------------------------
\* C24
\* ------------------------------------------------------------------------

\* the ids of the rows at the places
IdsAt(table, places) == {table[i].id : i \in places}

\* C24: for every number, the row the Dashboard resolver reports as
\* current, whatever answer the Dashboard query gave, is a row
\* deleteLastMovement may delete, and the rows deleteLastMovement may delete
\* are the rows that may stand last in the history.
C24_SelectorsAgree ==
  \A number \in MovementNumbers :
    /\ getProcessHistoryLast(processTable, number)
         = getLastProcessByNumber(processTable, number)
    /\ \A answer \in getAllProcessesForDashboard(processTable) :
         \A p \in Range(UniqueProcesses(answer)) :
           Trim(p.number) = number =>
             p.id \in IdsAt(processTable,
                            getLastProcessByNumber(processTable, number))

\* ------------------------------------------------------------------------
\* C25
\* ------------------------------------------------------------------------

\* C25: the list view's resolver, given the list the Dashboard resolved,
\* selects the same set of records as the Dashboard's resolver did.
C25_ResolversEquivalent ==
  Range(ListUniqueProcesses(data)) = Range(uniqueProcesses)

\* ------------------------------------------------------------------------
\* C26
\* ------------------------------------------------------------------------

\* an active user has the email login was called with, whatever the case
\* of its letters, and holds the password login was called with
Authentic ==
  \E i \in DOMAIN usersTable :
    /\ LowerEmail(usersTable[i].email) = LowerEmail(loginCall.args[1])
    /\ usersTable[i].active
    /\ StoredPassword(usersTable[i]) = <<loginCall.args[2]>>

\* C26: login returns a user, stores a session id or writes a LOGIN entry
\* only when an active user with the email it was called with holds the
\* password it was called with.
C26_LoginOnlyWithCredentials ==
  [][ ( \/ loginResult'.user # <<>> /\ loginResult' # loginResult
        \/ sessionId' # <<>> /\ sessionId' # sessionId
        \/ Len(logs') > Len(logs) /\ logs'[Len(logs')].action = "LOGIN" )
      => Authentic ]_vars

\* ------------------------------------------------------------------------
\* C27
\* ------------------------------------------------------------------------

\* C27: the row deleteLastMovement removes, with a saveProcess of the same
\* number between its read and its delete or not, is a movement of the
\* number than which none is more recent in the table the delete acts on.
C27_RemovesMostRecentAtDelete ==
  [][ ( /\ deleteCall.at = "delete"
        /\ deleteCall'.at = "idle"
        /\ thrown' = "" )
      => \E i \in WithId(processTable, deleteCall.last[1]) :
           \A j \in MovementsOf(deleteCall.number) :
             ~MoreRecent(processTable[j], processTable[i]) ]_vars

\* ------------------------------------------------------------------------
\* C28
\* ------------------------------------------------------------------------

\* C28: no two users have the same email, and at most one user has been
\* made administrator by the first-user rule (no caller asks for the role).
C28_UniqueEmailOneAdmin ==
  /\ \A i, j \in DOMAIN usersTable :
       i # j => usersTable[i].email # usersTable[j].email
  /\ Cardinality({i \in DOMAIN usersTable : usersTable[i].role = "ADMIN"}) <= 1

\* ------------------------------------------------------------------------
\* C29
\* ------------------------------------------------------------------------

\* 1 <= currentPage <= max(1, totalPages)
PageInRange ==
  /\ 1 <= currentPage
  /\ currentPage <= Max(1, CeilDiv(totalProcessesCount, itemsPerPage))

\* C29: no handler of the filter bar or of the pagination controls takes
\* the current page out of 1..max(1, totalPages), and handleFilterChange
\* sets the current page to 1.
C29_PageStaysInRange ==
  [][ /\ PageInRange => PageInRange'
      /\ handleFilterChange => currentPage' = 1 ]_vars

\* ------------------------------------------------------------------------
\* C30
\* ------------------------------------------------------------------------

\* C30: when a writer appends a log entry, its write or delete is in the
\* table: after a DELETE entry the rows it names (its target, or the ids of
\* a bulk deletion) are gone, and after a CREATE or UPDATE entry the rows it
\* names are there as written at that instant.
C30_LogOnlyAfterEffect ==
  [][ Len(logs') > Len(logs) =>
        LET entry == logs'[Len(logs')] IN
        /\ (entry.action = "DELETE" /\ entry.targetId # <<>>) =>
             WithId(processTable', entry.targetId[1]) = {}
        /\ (entry.action = "DELETE" /\ entry.targetId = <<>>) =>
             \A id \in call'.args[1] : WithId(processTable', id) = {}
        /\ (entry.action \in {"CREATE", "UPDATE"} /\ entry.targetId # <<>>) =>
             \E i \in WithId(processTable', entry.targetId[1]) :
               processTable'[i].updatedAt = Iso(now)
        /\ (entry.action = "UPDATE" /\ entry.targetId = <<>>) =>
             \A i \in DOMAIN processTable' :
               processTable'[i].id \in call'.args[1] =>
                 processTable'[i].updatedAt = Iso(now) ]_vars

====
